---------------------------- MODULE Spec2Model ----------------------------
(***************************************************************************)
(* Progress ledger of kindle-lock (archived/src/database.py).              *)
(*                                                                         *)
(* The four SQLite tables are the state.  A table is a sequence of rows in *)
(* rowid order (books, reading_progress) or a set of rows keyed by its     *)
(* primary key (daily_stats, settings).  The last_updated columns of books *)
(* and daily_stats are written by the code and read by no operation; they  *)
(* are left out.  Nullable columns hold <<>> (NULL) or <<v>>.              *)
(*                                                                         *)
(* Time is counted in hours since an epoch: datetime.now() is `now`, its   *)
(* date is now \div 24 and its hour now % 24.  CURRENT_TIMESTAMP is `now`  *)
(* as well: two statements executed before the clock moves carry the same  *)
(* timestamp, as two statements within one second do in SQLite.            *)
(*                                                                         *)
(* Every call is one step and reads the clock once.  A call commits when   *)
(* it returns (get_db), so the unprimed tables are the committed ones.     *)
(* record_progress calls get_setting and get_today_stats while its own     *)
(* transaction is open; each opens a connection of its own and therefore   *)
(* reads the committed tables, without the rows the open transaction has   *)
(* written.                                                                *)
(*                                                                         *)
(* Settings values are the decimal strings the program writes: str(int) of *)
(* a goal in 1..1000 or of a reset hour in 0..23 (update_app_settings in   *)
(* main.py).  A value is modelled by the integer int() parses it to.       *)
(***************************************************************************)
EXTENDS Integers, Sequences, FiniteSets, TLC

----------------------------------------------------------------------------
(* Bounds *)

MaxSnapshots == 4
MaxLibrarySnapshots == 3
\* passes that reach the library listing
MaxPasses == 2
\* page operations of one pass
MaxPageOps == 2

(* Program constants *)

HoursPerDay == 24
init_daily_page_goal == 30
init_day_reset_hour == 4
settings_daily_page_goal == 30
settings_day_reset_hour == 4

(* Input domains *)

Asins == {"A", "B"}
\* day 1 at 04h and day 2 at 03h: one day key when the reset hour is 4, two
\* when it is 5; 03h lies before either reset hour
Instants == {1 * HoursPerDay + 4, 2 * HoursPerDay + 3}
\* the instant the first pass begins at
PassStart == 1 * HoursPerDay + 4
\* the calls record_progress(asin, position, PercentAt(position)) of the ledger
ProgressInputs == ({"A"} \X {0, 1, 2, 3}) \cup ({"B"} \X {0, 1})
\* and those of the library
LibraryProgressInputs == Asins \X {1, 2}
\* the percent reported with a position
PercentAt(p) == IF p % 2 = 1 THEN 50 ELSE 10
SettingKeys == {"daily_page_goal", "day_reset_hour"}
SettingInputs ==
    [k \in SettingKeys |-> IF k = "daily_page_goal" THEN {1} ELSE {5}]
BookInputs ==
    { [title |-> "t1", authors |-> <<"x">>, total_pages |-> <<>>, cover_url |-> <<>>],
      [title |-> "t2", authors |-> <<"y">>, total_pages |-> <<300>>, cover_url |-> <<"u">>] }

NULL == <<>>
Some(v) == <<v>>

VARIABLES
    now,               \* the wall clock, in hours
    books,             \* table books, rows in rowid order
    reading_progress,  \* table reading_progress, rows in rowid order
    daily_stats,       \* table daily_stats, a set of rows keyed by date
    settings,          \* table settings, key -> NULL or <<value>>
    ret,               \* the last call and what it returned
    \* one pass of the scraper (KindleScraper.scrape_and_save and its callees)
    pc,                \* where the pass stands
    mode,              \* "batch" or "streaming"
    credentials,       \* settings.amazon_email / amazon_password: configured or empty
    page_url,          \* self.page.url, as the set of the tested substrings it contains
    reader_page,       \* what opening the current item met: the reader view and its text
    attempt,           \* loop variable of is_logged_in
    page_ops,          \* page operations of the current is_logged_in attempt
    login_status,      \* what is_logged_in returned: TRUE, FALSE or "2fa"
    listing,           \* books, the list get_library_and_progress returned
    idx,               \* position of the current item in the listing, from 1
    progress,          \* what get_book_progress_from_reader returned for it
    books_with_progress,
    books_with_license_limit,
    events,            \* the events the streaming pass has yielded
    result,            \* the summary the batch pass has returned
    calls,             \* login, listing and ledger calls the pass has made
    \* the scraper singleton and the tasks that use it
    scraper,           \* _scraper: NULL or the KindleScraper object
    scraper_lock,      \* _scraper_lock: NULL or the task holding it
    browser,           \* per KindleScraper object: its _playwright, context and page
    task,              \* per task: its control point, its local variable scraper,
                       \* a pending cancellation and how its last run_scrape ended
    page_log,          \* page operations of the passes now running, in execution order
    last_scrape_time   \* main.py: last_scrape_time

vars == <<now, books, reading_progress, daily_stats, settings, ret>>

pass_vars == <<pc, mode, credentials, page_url, reader_page, attempt, page_ops, login_status,
               listing, idx, progress, books_with_progress,
               books_with_license_limit, events, result, calls>>

session_vars == <<scraper, scraper_lock, browser, task, page_log, last_scrape_time>>

all_vars == <<vars, pass_vars, session_vars>>

----------------------------------------------------------------------------
(* The scraper before any pass, and the singleton before any task *)

\* a page that has not navigated yet: about:blank holds none of the substrings
ABOUT_BLANK == {}

\* amazon_email and amazon_password default to "" (config.py)
NoCredentials == [email |-> FALSE, password |-> FALSE]

PassIdle ==
    /\ pc = "idle"
    /\ mode = "batch"
    /\ page_url = ABOUT_BLANK
    /\ reader_page = <<>>
    /\ attempt = 0
    /\ page_ops = <<>>
    /\ login_status = "None"
    /\ listing = <<>>
    /\ idx = 0
    /\ progress = <<>>
    /\ books_with_progress = 0
    /\ books_with_license_limit = <<>>
    /\ events = <<>>
    /\ result = <<>>
    /\ calls = <<>>

Tasks == {"scheduled_scrape", "trigger_refresh", "lifespan"}

\* a task that has not run yet
TaskIdle == [pc |-> "idle", scraper |-> <<>>, cancel |-> FALSE, out |-> <<>>, raised |-> FALSE]

\* _scraper = None, the lock free, no KindleScraper constructed, no task
\* started, last_scrape_time = None
SessionIdle ==
    /\ scraper = <<>>
    /\ scraper_lock = <<>>
    /\ browser = <<>>
    /\ task = [t \in Tasks |-> TaskIdle]
    /\ page_log = <<>>
    /\ last_scrape_time = <<>>

----------------------------------------------------------------------------
(* Helpers *)

DateOf(t) == t \div HoursPerDay
HourOf(t) == t % HoursPerDay

\* SQL COALESCE(a, b)
COALESCE(a, b) == IF a # NULL THEN a ELSE b

----------------------------------------------------------------------------
(* get_setting / set_setting *)

get_setting(key) == settings[key]

\* int(get_setting(key) or default)
IntSettingOr(key, default) ==
    IF get_setting(key) # NULL THEN get_setting(key)[1] ELSE default

set_setting(key, value) ==
    /\ settings' = [settings EXCEPT ![key] = Some(value)]
    /\ ret' = [op |-> "set_setting"]
    /\ UNCHANGED <<now, books, reading_progress, daily_stats>>

----------------------------------------------------------------------------
(* get_today_key *)

\* mutant: the reset hour itself still counts as the previous day
TodayKeyAt_inclusive(t, reset_hour) ==
    IF HourOf(t) <= reset_hour THEN DateOf(t) - 1 ELSE DateOf(t)

TodayKeyAt(t, reset_hour) ==
    IF HourOf(t) < reset_hour THEN DateOf(t) - 1 ELSE DateOf(t)

get_today_key == TodayKeyAt(now, IntSettingOr("day_reset_hour", settings_day_reset_hour))

get_today_key_call ==
    /\ ret' = [op |-> "get_today_key", value |-> get_today_key]
    /\ UNCHANGED <<now, books, reading_progress, daily_stats, settings>>

----------------------------------------------------------------------------
(* PUT /settings: update_app_settings (main.py) *)

\* the request bodies sampled: each field absent, at and beyond both ends of
\* its range, and inside it
SettingsUpdates ==
    [daily_page_goal : {NULL, Some(0), Some(1), Some(50), Some(1000), Some(1001)},
     day_reset_hour  : {NULL, Some(0 - 1), Some(0), Some(23), Some(24)}]

\* if update.daily_page_goal < 1 or update.daily_page_goal > 1000: raise HTTPException(400, ...)
GoalRejected(g) == g < 1 \/ g > 1000

\* if update.day_reset_hour < 0 or update.day_reset_hour > 23: raise HTTPException(400, ...)
HourRejected(h) == h < 0 \/ h > 23

\* set_setting on a table: INSERT ... ON CONFLICT(key) DO UPDATE, committed
\* when the call returns
WithSetting(table, key, value) == [table EXCEPT ![key] = Some(value)]

\* get_app_settings on a table
SettingsResponse(table) ==
    [daily_page_goal |-> IF table["daily_page_goal"] # NULL THEN table["daily_page_goal"][1]
                         ELSE settings_daily_page_goal,
     day_reset_hour  |-> IF table["day_reset_hour"] # NULL THEN table["day_reset_hour"][1]
                         ELSE settings_day_reset_hour]

\* the handler, statement by statement: the goal is checked and stored, then
\* the hour is checked and stored, then the stored settings are returned
update_app_settings(update) ==
    LET g == update.daily_page_goal
        h == update.day_reset_hour
        with_goal == IF g # NULL THEN WithSetting(settings, "daily_page_goal", g[1])
                     ELSE settings
        with_hour == IF h # NULL THEN WithSetting(with_goal, "day_reset_hour", h[1])
                     ELSE with_goal
    IN  /\ IF g # NULL /\ GoalRejected(g[1])
           THEN /\ settings' = settings
                /\ ret' = [op |-> "update_app_settings", request |-> update, status |-> 400,
                           body |-> [detail |-> "daily_page_goal must be between 1 and 1000"]]
           ELSE IF h # NULL /\ HourRejected(h[1])
           THEN /\ settings' = with_goal
                /\ ret' = [op |-> "update_app_settings", request |-> update, status |-> 400,
                           body |-> [detail |-> "day_reset_hour must be between 0 and 23"]]
           ELSE /\ settings' = with_hour
                /\ ret' = [op |-> "update_app_settings", request |-> update, status |-> 200,
                           body |-> SettingsResponse(with_hour)]
        /\ UNCHANGED <<now, books, reading_progress, daily_stats, pass_vars, session_vars>>

----------------------------------------------------------------------------
(* init_db: the state after construction *)

init_db ==
    /\ books = <<>>
    /\ reading_progress = <<>>
    /\ daily_stats = {}
    /\ settings = [k \in SettingKeys |->
                     IF k = "daily_page_goal" THEN Some(init_daily_page_goal)
                                              ELSE Some(init_day_reset_hour)]

Init ==
    /\ init_db
    /\ now \in Instants
    /\ ret = [op |-> "init_db"]
    /\ PassIdle /\ credentials = NoCredentials
    /\ SessionIdle

----------------------------------------------------------------------------
(* upsert_book *)

\* json.dumps(authors) / json.loads(text): the column holds the encoded list
json_dumps(authors) == [json |-> authors]
json_loads(text) == text.json

BookIndex(asin) == {i \in DOMAIN books : books[i].asin = asin}

\* mutant: every column is overwritten by the new value
MergeBook_overwrite(old, asin, title, authors, total_pages, cover_url) ==
    [asin        |-> asin,
     title       |-> title,
     authors     |-> json_dumps(authors),
     total_pages |-> total_pages,
     cover_url   |-> cover_url]

\* ON CONFLICT(asin) DO UPDATE SET ...: the merge of the stored row and the new one
MergeBook(old, asin, title, authors, total_pages, cover_url) ==
    [asin        |-> asin,
     title       |-> title,
     authors     |-> json_dumps(authors),
     total_pages |-> COALESCE(total_pages, old.total_pages),
     cover_url   |-> COALESCE(cover_url, old.cover_url)]

InsertBook(asin, title, authors, total_pages, cover_url) ==
    [asin        |-> asin,
     title       |-> title,
     authors     |-> json_dumps(authors),
     total_pages |-> total_pages,
     cover_url   |-> cover_url]

upsert_book(asin, title, authors, total_pages, cover_url) ==
    /\ books' =
         IF BookIndex(asin) # {}
         THEN [i \in DOMAIN books |->
                 IF books[i].asin = asin
                 THEN MergeBook(books[i], asin, title, authors, total_pages, cover_url)
                 ELSE books[i]]
         ELSE Append(books, InsertBook(asin, title, authors, total_pages, cover_url))
    /\ ret' = [op |-> "upsert_book", asin |-> asin, title |-> title,
               authors |-> authors, total_pages |-> total_pages,
               cover_url |-> cover_url]
    /\ UNCHANGED <<now, reading_progress, daily_stats, settings>>

----------------------------------------------------------------------------
(* get_today_stats *)

DailyRows(date) == {r \in daily_stats : r.date = date}

\* mutant: pages_remaining is not clamped at 0
get_today_stats_unclamped ==
    LET today == get_today_key
        goal  == IntSettingOr("daily_page_goal", settings_daily_page_goal)
    IN  IF DailyRows(today) # {}
        THEN LET row == CHOOSE r \in DailyRows(today) : TRUE
             IN  [date            |-> today,
                  pages_read      |-> row.pages_read,
                  page_goal       |-> goal,
                  goal_met        |-> (row.pages_read >= goal),
                  goal_met_at     |-> row.goal_met_at,
                  pages_remaining |-> goal - row.pages_read]
        ELSE [date            |-> today,
              pages_read      |-> 0,
              page_goal       |-> goal,
              goal_met        |-> FALSE,
              goal_met_at     |-> NULL,
              pages_remaining |-> goal]

\* reads the committed tables: the unprimed variables
get_today_stats ==
    LET today == get_today_key
        goal  == IntSettingOr("daily_page_goal", settings_daily_page_goal)
    IN  IF DailyRows(today) # {}
        THEN LET row == CHOOSE r \in DailyRows(today) : TRUE
             IN  [date            |-> today,
                  pages_read      |-> row.pages_read,
                  page_goal       |-> goal,
                  goal_met        |-> (row.pages_read >= goal),
                  goal_met_at     |-> row.goal_met_at,
                  pages_remaining |-> IF goal - row.pages_read > 0
                                      THEN goal - row.pages_read ELSE 0]
        ELSE [date            |-> today,
              pages_read      |-> 0,
              page_goal       |-> goal,
              goal_met        |-> FALSE,
              goal_met_at     |-> NULL,
              pages_remaining |-> goal]

get_today_stats_call ==
    /\ ret' = [op |-> "get_today_stats", value |-> get_today_stats]
    /\ UNCHANGED <<now, books, reading_progress, daily_stats, settings>>

----------------------------------------------------------------------------
(* record_progress *)

ProgressRows(asin) ==
    {i \in DOMAIN reading_progress : reading_progress[i].asin = asin}

\* ORDER BY recorded_at DESC LIMIT 1 over idx_progress_asin_time
\* (asin, recorded_at DESC, rowid): of the rows that share the greatest
\* recorded_at the one with the lowest rowid comes first
LatestRow(asin) ==
    CHOOSE i \in ProgressRows(asin) :
        \A j \in ProgressRows(asin) :
            \/ reading_progress[j].recorded_at < reading_progress[i].recorded_at
            \/ /\ reading_progress[j].recorded_at = reading_progress[i].recorded_at
               /\ i <= j

\* mutant: a book without snapshot counts as read from position 0
last_progress_from_zero(asin) ==
    IF ProgressRows(asin) = {} THEN Some(0)
    ELSE Some(reading_progress[LatestRow(asin)].position)

\* SELECT position ... fetchone(): NULL when the book has no snapshot
last_progress(asin) ==
    IF ProgressRows(asin) = {} THEN NULL
    ELSE Some(reading_progress[LatestRow(asin)].position)

\* mutant: on conflict the stored count is replaced by the delta
UpsertDailyStats_replace(ds, today, pages_delta) ==
    IF \E r \in ds : r.date = today
    THEN {IF r.date = today THEN [r EXCEPT !.pages_read = pages_delta] ELSE r : r \in ds}
    ELSE ds \cup {[date |-> today, pages_read |-> pages_delta, goal_met_at |-> NULL]}

\* INSERT INTO daily_stats ... ON CONFLICT(date) DO UPDATE SET pages_read = pages_read + ?
UpsertDailyStats(ds, today, pages_delta) ==
    IF \E r \in ds : r.date = today
    THEN {IF r.date = today THEN [r EXCEPT !.pages_read = @ + pages_delta] ELSE r : r \in ds}
    ELSE ds \cup {[date |-> today, pages_read |-> pages_delta, goal_met_at |-> NULL]}

\* UPDATE daily_stats SET goal_met_at = CURRENT_TIMESTAMP WHERE date = ?
SetGoalMetAt(ds, today, ts) ==
    {IF r.date = today THEN [r EXCEPT !.goal_met_at = Some(ts)] ELSE r : r \in ds}

\* mutant: the insert replaces the snapshot the book already has
InsertProgress_replace(rows, asin, position, percent, ts) ==
    LET row == [asin |-> asin, position |-> position,
                percent_complete |-> percent, recorded_at |-> ts]
    IN  IF \E i \in DOMAIN rows : rows[i].asin = asin
        THEN [i \in DOMAIN rows |-> IF rows[i].asin = asin THEN row ELSE rows[i]]
        ELSE Append(rows, row)

\* INSERT INTO reading_progress (asin, position, percent_complete) VALUES (?, ?, ?)
InsertProgress(rows, asin, position, percent, ts) ==
    Append(rows, [asin |-> asin, position |-> position,
                  percent_complete |-> percent, recorded_at |-> ts])

\* mutant: what was executed before the exception is committed
Rollback_commit(committed, executed) == executed

\* get_db: an exception in the with-body skips conn.commit(), and conn.close()
\* discards what the connection executed since the last commit
Rollback(committed, executed) == committed

\* mutant: any change of position counts
PositionIncreased_changed(position, last_position) == position # last_position

\* if position > last_position
PositionIncreased(position, last_position) == position > last_position

\* mutant: the goal is stamped whenever it is reached
GoalJustMet_always(stats, goal) == stats.pages_read >= goal

\* the check made after the aggregate is updated: get_today_stats() opens a
\* connection of its own and sees the tables as last committed
GoalJustMet(stats, goal) == stats.pages_read >= goal /\ stats.goal_met_at = NULL

\* mutant: the call returns without having stored the snapshot
record_progress_unrecorded(asin, position, percent) ==
    /\ ret' = [op |-> "record_progress"]
    /\ UNCHANGED <<now, books, reading_progress, daily_stats, settings>>

record_progress(asin, position, percent) ==
    LET today == get_today_key
        last  == last_progress(asin)
    IN  /\ reading_progress' = InsertProgress(reading_progress, asin, position, percent, now)
        /\ IF last = NULL
           THEN UNCHANGED daily_stats
           ELSE LET last_position == last[1] IN
                IF PositionIncreased(position, last_position)
                THEN LET pages_delta == position - last_position
                         updated == UpsertDailyStats(daily_stats, today, pages_delta)
                         goal  == IntSettingOr("daily_page_goal", settings_daily_page_goal)
                         stats == get_today_stats
                     IN  daily_stats' = IF GoalJustMet(stats, goal)
                                        THEN SetGoalMetAt(updated, today, now)
                                        ELSE updated
                ELSE UNCHANGED daily_stats
        /\ ret' = [op |-> "record_progress"]
        /\ UNCHANGED <<now, books, settings>>

----------------------------------------------------------------------------
(* reset_daily_stats / reset_all_progress *)

reset_daily_stats ==
    /\ daily_stats' = {}
    /\ ret' = [op |-> "reset_daily_stats"]
    /\ UNCHANGED <<now, books, reading_progress, settings>>

\* mutant: the snapshots are kept
reset_all_progress_keep ==
    /\ daily_stats' = {}
    /\ ret' = [op |-> "reset_all_progress"]
    /\ UNCHANGED <<now, books, reading_progress, settings>>

reset_all_progress ==
    /\ reading_progress' = <<>>
    /\ daily_stats' = {}
    /\ ret' = [op |-> "reset_all_progress"]
    /\ UNCHANGED <<now, books, settings>>

----------------------------------------------------------------------------
(* get_library *)

\* books b LEFT JOIN p ON b.asin = p.asin AND p.rn = 1, where p numbers each
\* book's snapshots by recorded_at DESC over the same index as LatestRow
JoinLatest(b) ==
    LET p == IF ProgressRows(b.asin) = {} THEN NULL
             ELSE Some(reading_progress[LatestRow(b.asin)])
    IN  [asin             |-> b.asin,
         title            |-> b.title,
         authors          |-> IF b.authors # NULL THEN json_loads(b.authors) ELSE <<>>,
         total_pages      |-> b.total_pages,
         cover_url        |-> b.cover_url,
         current_position |-> IF p = NULL THEN NULL ELSE Some(p[1].position),
         percent_complete |-> IF p = NULL THEN NULL ELSE Some(p[1].percent_complete),
         last_read        |-> IF p = NULL THEN NULL ELSE Some(p[1].recorded_at)]

\* x sorts strictly before y under ORDER BY recorded_at DESC NULLS LAST
SortsBefore(x, y) ==
    /\ x.last_read # NULL
    /\ y.last_read = NULL \/ x.last_read[1] > y.last_read[1]

RemoveAt(s, i) == [k \in 1..(Len(s) - 1) |-> IF k < i THEN s[k] ELSE s[k + 1]]

\* the sorter keeps rows of equal key in the order of the scan of books
RECURSIVE OrderByLastRead(_)
OrderByLastRead(rows) ==
    IF rows = <<>> THEN <<>>
    ELSE LET first == CHOOSE i \in DOMAIN rows :
                         /\ \A j \in DOMAIN rows : ~SortsBefore(rows[j], rows[i])
                         /\ \A k \in 1..(i - 1) : SortsBefore(rows[i], rows[k])
         IN  <<rows[first]>> \o OrderByLastRead(RemoveAt(rows, first))

get_library == OrderByLastRead([i \in DOMAIN books |-> JoinLatest(books[i])])

get_library_call ==
    /\ ret' = [op |-> "get_library", value |-> get_library]
    /\ UNCHANGED <<now, books, reading_progress, daily_stats, settings>>

----------------------------------------------------------------------------
(* The Navigator: is_logged_in and login (src/scraper.py)                  *)
(*                                                                         *)
(* The code decides on self.page.url by substring tests only.  A URL is    *)
(* the set of the tested substrings it contains; a substring of another    *)
(* tested one comes with it ("ap/signin" contains "signin").  Where a      *)
(* click, a submit or a navigation leads is the upstream site's choice:    *)
(* any URL of Urls.                                                        *)

\* range(5)
LOGIN_ATTEMPTS == 5

\* https://read.amazon.com/kindle-library
LIBRARY_URL == {"read.amazon.com", "read.amazon.com/kindle-library"}

Urls ==
    { LIBRARY_URL,
      {"read.amazon.com", "landing"},
      {"read.amazon.com"},
      {"signin", "ap/signin"},
      {"signin", "ap/signin", "read.amazon.com"},   \* sign-in page with its return address
      {"ap/mfa", "mfa"},
      {"ap/cvf", "cvf"},
      {"ap/dcq"},
      {"challenge"},
      {"verification"},
      {"primememberpromo"},
      {"landing", "ap/mfa", "mfa"},
      LIBRARY_URL \cup {"landing", "challenge"},
      ABOUT_BLANK }

auth_pages ==
    {"signin", "ap/signin", "ap/mfa", "ap/cvf", "ap/dcq",
     "primememberpromo", "verification", "challenge"}

\* "read.amazon.com/kindle-library" in current_url
IsLibrary(url) == "read.amazon.com/kindle-library" \in url

\* "landing" in current_url
IsLanding(url) == "landing" \in url

\* any(page in current_url for page in auth_pages)
IsAuthPage(url) == url \cap auth_pages # {}

\* mutant: device challenge questions are taken for a sign-in form
IsManualPage_no_dcq(url) == url \cap {"ap/mfa", "ap/cvf", "challenge", "verification"} # {}

\* any(x in current_url for x in ["ap/mfa", "ap/cvf", "ap/dcq", "challenge", "verification"])
IsManualPage(url) == url \cap {"ap/mfa", "ap/cvf", "ap/dcq", "challenge", "verification"} # {}

\* the branch of the loop body an URL is handled by, in the order of the tests
Classify(url) ==
    IF IsLibrary(url) THEN "Library"
    ELSE IF IsLanding(url) THEN "Landing"
    ELSE IF IsAuthPage(url) THEN (IF IsManualPage(url) THEN "Manual2FA" ELSE "AuthChallenge")
    ELSE "Unknown"

\* what the locators of the auth page branch find: the email field (absent,
\* empty or filled), the continue button, the password field before and after
\* the password sign-in button is clicked, that button, the submit button,
\* and whether the first locator call raises
AuthForms ==
    { [email |-> "empty", continue_btn |-> TRUE, password |-> "absent",
       signin_btn |-> FALSE, password_then |-> "absent", submit_btn |-> FALSE, raises |-> FALSE],
      [email |-> "filled", continue_btn |-> FALSE, password |-> "empty",
       signin_btn |-> FALSE, password_then |-> "empty", submit_btn |-> TRUE, raises |-> FALSE],
      [email |-> "absent", continue_btn |-> FALSE, password |-> "absent",
       signin_btn |-> TRUE, password_then |-> "empty", submit_btn |-> TRUE, raises |-> FALSE],
      [email |-> "empty", continue_btn |-> FALSE, password |-> "empty",
       signin_btn |-> FALSE, password_then |-> "empty", submit_btn |-> TRUE, raises |-> FALSE],
      [email |-> "absent", continue_btn |-> FALSE, password |-> "absent",
       signin_btn |-> FALSE, password_then |-> "absent", submit_btn |-> FALSE, raises |-> FALSE],
      [email |-> "empty", continue_btn |-> TRUE, password |-> "empty",
       signin_btn |-> FALSE, password_then |-> "empty", submit_btn |-> TRUE, raises |-> TRUE] }

\* the try block of the auth page branch on a form f: the page operations it
\* performs and whether it leaves is_logged_in with False
AuthPage(f, cred) ==
    LET emailOps == IF f.email = "empty" /\ cred.email
                    THEN <<"fill_email">> \o (IF f.continue_btn THEN <<"click_continue">> ELSE <<>>)
                    ELSE <<>>
        signinOps == IF f.password = "absent" /\ f.signin_btn THEN <<"click_signin">> ELSE <<>>
        password == IF f.password = "absent" THEN f.password_then ELSE f.password
        submitOps == IF f.submit_btn THEN <<"click_submit">> ELSE <<>>
    IN  IF f.raises THEN [ops |-> <<>>, returns_false |-> FALSE]
        ELSE IF f.email = "empty" /\ ~cred.email THEN [ops |-> <<>>, returns_false |-> TRUE]
        ELSE IF password = "empty" /\ ~cred.password
             THEN [ops |-> emailOps \o signinOps, returns_false |-> TRUE]
        ELSE [ops |-> emailOps \o signinOps
                        \o (IF password = "empty" THEN <<"fill_password">> ELSE <<>>)
                        \o submitOps,
              returns_false |-> FALSE]

\* mutant: the body is retried without counting
NextAttempt_uncounted(a) == a

\* for attempt in range(5): the next value of the loop variable
NextAttempt(a) == a + 1

\* is_logged_in up to the loop: goto(LIBRARY_URL), which may raise and leave
\* the page where it is
is_logged_in_begin ==
    /\ page_url' \in Urls \cup {page_url}
    /\ attempt' = 0
    /\ page_ops' = <<>>
    /\ login_status' = "None"
    /\ pc' = "is_logged_in"

\* return from is_logged_in
is_logged_in_return(status) ==
    /\ login_status' = status
    /\ pc' = "checked"
    /\ UNCHANGED attempt

\* one pass through the loop body
is_logged_in_attempt ==
    /\ pc = "is_logged_in"
    /\ attempt < LOGIN_ATTEMPTS
    /\ LET current_url == page_url
           class == Classify(current_url)
       IN  \/ /\ class = "Library"
              /\ is_logged_in_return("True")
              /\ page_ops' = <<>>
              /\ UNCHANGED page_url
           \/ /\ class = "Landing"
              /\ page_ops' = <<"click_sign_in_with_your_account">>
              /\ page_url' \in Urls
              /\ attempt' = NextAttempt(attempt)
              /\ UNCHANGED <<pc, login_status>>
           \/ /\ class = "Manual2FA"
              /\ is_logged_in_return("2fa")
              /\ page_ops' = <<>>
              /\ UNCHANGED page_url
           \/ /\ class = "AuthChallenge"
              /\ \E f \in AuthForms :
                    LET r == AuthPage(f, credentials)
                    IN  /\ page_ops' = r.ops
                        /\ page_url' \in (IF r.ops = <<>> THEN {page_url} ELSE Urls)
                        /\ IF r.returns_false
                           THEN is_logged_in_return("False")
                           ELSE /\ attempt' = NextAttempt(attempt)
                                /\ UNCHANGED <<pc, login_status>>
           \/ /\ class = "Unknown"
              /\ page_ops' = <<"goto_library">>
              /\ page_url' \in Urls
              /\ attempt' = NextAttempt(attempt)
              /\ UNCHANGED <<pc, login_status>>
    /\ UNCHANGED <<vars, mode, credentials, reader_page, listing, idx, progress, books_with_progress,
                   books_with_license_limit, events, result, calls, session_vars>>

\* the loop has run LOGIN_ATTEMPTS times
is_logged_in_exhausted ==
    /\ pc = "is_logged_in"
    /\ attempt = LOGIN_ATTEMPTS
    /\ is_logged_in_return("False")
    /\ UNCHANGED <<vars, mode, credentials, reader_page, page_url, page_ops, listing, idx, progress,
                   books_with_progress, books_with_license_limit, events, result,
                   calls, session_vars>>

\* wait_for_url(lambda url: "read.amazon.com" in url or "ap/mfa" in url or "ap/cvf" in url)
LoginLanded(url) == "read.amazon.com" \in url \/ "ap/mfa" \in url \/ "ap/cvf" \in url

\* if "mfa" in self.page.url or "cvf" in self.page.url
LoginChallenged(url) == "mfa" \in url \/ "cvf" \in url

\* login() when no wait times out: the URLs it can return on
LoginReturnsOn ==
    {u \in Urls : LoginLanded(u) /\ ~LoginChallenged(u)}
       \cup {v \in Urls : "read.amazon.com" \in v /\ \E u \in Urls : LoginLanded(u) /\ LoginChallenged(u)}

----------------------------------------------------------------------------
(* The Orchestrator: scrape_and_save and scrape_and_save_streaming         *)
(* (archived/src/scraper.py)                                               *)
(*                                                                         *)
(* A pass is a chain of steps, one per awaited call or ledger call.  A     *)
(* title is the pair of its first 40 characters and the rest, so that      *)
(* title[:40] is the title with the rest cut off.  A dict is the record    *)
(* of its keys; {} is the record without keys.                             *)

Modes == {"batch", "streaming"}

CredentialConfigs ==
    { [email |-> TRUE, password |-> TRUE],
      [email |-> TRUE, password |-> FALSE],
      NoCredentials }

\* totalPages: 100, "Treat as 100 units for page tracking"
LISTING_TOTAL_PAGES == 100

\* what the library page lists; every item comes with the placeholder total
LibraryItems ==
    [A |-> [asin |-> "A", title |-> <<"Dune", "">>, authors |-> <<"Frank Herbert">>,
            totalPages |-> Some(LISTING_TOTAL_PAGES), coverUrl |-> Some("a.jpg")],
     B |-> [asin |-> "B", title |-> <<"The Life and Opinions of Tristram Shandy", ", Gentleman">>,
            authors |-> <<>>, totalPages |-> Some(LISTING_TOTAL_PAGES), coverUrl |-> NULL],
     C |-> [asin |-> "C", title |-> <<"Emma", "">>, authors |-> <<"Jane Austen">>,
            totalPages |-> Some(LISTING_TOTAL_PAGES), coverUrl |-> NULL]]

Listings ==
    { <<>>,
      <<LibraryItems.A>>,
      <<LibraryItems.A, LibraryItems.B>>,
      <<LibraryItems.A, LibraryItems.B, LibraryItems.C>> }

\* book["title"][:40]
TitlePrefix(title) == <<title[1], "">>

\* d.get(key)
Get(d, key) == IF key \in DOMAIN d THEN d[key] ELSE NULL

\* Math.round((current / total) * 100)
RoundPercent(current, total) == (200 * current + total) \div (2 * total)

\* the result object of the reader view script for what findPattern found:
\* a position with a total, a percentage, or nothing
ProgressInfo(found) ==
    IF found = NULL
    THEN [current |-> NULL, total |-> NULL, percent |-> NULL]
    ELSE IF "current" \in DOMAIN found[1]
    THEN [current |-> Some(found[1].current), total |-> Some(found[1].total),
          percent |-> Some(RoundPercent(found[1].current, found[1].total))]
    ELSE [current |-> Some(found[1].percent), total |-> Some(100),
          percent |-> Some(found[1].percent)]

(* A text is the sequence of its whitespace-separated tokens: a word, a      *)
(* number, or a number with the percent sign attached.                       *)

Word(w) == [kind |-> "word", word |-> w, number |-> 0]
Number(n) == [kind |-> "number", word |-> "", number |-> n]
Percent(n) == [kind |-> "percent", word |-> "", number |-> n]

\* /Page/i and /Loc(?:ation)?/i, as far as the words of the texts go
PageWords == {"Page", "page"}
LocWords == {"Loc", "Location", "location"}

\* the places where words\s+(\d+)\s+of\s+(\d+) matches
MatchesAt(text, words) ==
    {i \in 1..(Len(text) - 3) :
        /\ text[i].kind = "word" /\ text[i].word \in words
        /\ text[i + 1].kind = "number"
        /\ text[i + 2].kind = "word" /\ text[i + 2].word = "of"
        /\ text[i + 3].kind \in {"number", "percent"}}

\* text.match(...) returns the leftmost match
Leftmost(S) == CHOOSE i \in S : \A j \in S : i <= j

XofY(text, i) == [current |-> text[i + 1].number, total |-> text[i + 3].number]

\* /^(\d+)\s+of\s+(\d+)$/: the text is nothing but "X of Y"
IsGeneric(text) ==
    /\ Len(text) = 3
    /\ text[1].kind = "number"
    /\ text[2].kind = "word" /\ text[2].word = "of"
    /\ text[3].kind = "number"

\* the places where (\d+)% matches
PercentMatches(text) == {i \in DOMAIN text : text[i].kind = "percent"}

\* mutant: the percentage is looked for first
findPattern_percent_first(text) ==
    IF PercentMatches(text) # {} THEN Some([percent |-> text[Leftmost(PercentMatches(text))].number])
    ELSE IF MatchesAt(text, PageWords) # {} THEN Some(XofY(text, Leftmost(MatchesAt(text, PageWords))))
    ELSE IF MatchesAt(text, LocWords) # {} THEN Some(XofY(text, Leftmost(MatchesAt(text, LocWords))))
    ELSE IF IsGeneric(text) THEN Some(XofY(text, 0))
    ELSE NULL

\* findPattern: "Page X of Y", "Loc X of Y" / "Location X of Y", "X of Y"
\* alone, "Z%"
findPattern(text) ==
    IF MatchesAt(text, PageWords) # {} THEN Some(XofY(text, Leftmost(MatchesAt(text, PageWords))))
    ELSE IF MatchesAt(text, LocWords) # {} THEN Some(XofY(text, Leftmost(MatchesAt(text, LocWords))))
    ELSE IF IsGeneric(text) THEN Some(XofY(text, 0))
    ELSE IF PercentMatches(text) # {} THEN Some([percent |-> text[Leftmost(PercentMatches(text))].number])
    ELSE NULL

\* an element the selectors match: its trimmed text and the length of it
Fragment(text, length) == [text |-> text, length |-> length]

\* if (text.length > 0 && text.length < 50)
IsScanned(f) == f.length > 0 /\ f.length < 50

\* the loops over progressSelectors and their elements: the first scanned
\* fragment in which findPattern finds something; else the body text
ScanPage(fragments, body) ==
    LET hits == {i \in DOMAIN fragments :
                    IsScanned(fragments[i]) /\ findPattern(fragments[i].text) # NULL}
    IN  IF hits # {} THEN findPattern(fragments[Leftmost(hits)].text)
        ELSE findPattern(body)

\* what opening an item meets: whether the library page holds its element,
\* the await that raises ("open": up to the dialog check; "evaluate": the
\* reader script; "goto": the way back to the library) and whether the goto
\* of the handler then reaches the library, whether the body text holds a
\* license-limit phrase, and the texts of the reader view
ReaderView(book_el, raises, recovered, license_dialog, fragments, body) ==
    [book_el |-> book_el, raises |-> raises, recovered |-> recovered,
     license_dialog |-> license_dialog, fragments |-> fragments, body |-> body]

PageOf(current, total) == <<Word("Page"), Number(current), Word("of"), Number(total)>>

\* the reader URL holds "read.amazon.com" and not "kindle-library"
READER_URL == {"read.amazon.com"}

\* the views sampled for the items of the listing; off the library page the
\* element of an item is not there
ReaderViews(asin, url) ==
    IF ~IsLibrary(url)
    THEN { ReaderView(0, "none", FALSE, FALSE, <<>>, <<>>) }
    ELSE IF asin = "A"
    THEN { ReaderView(1, "none", FALSE, FALSE, <<Fragment(PageOf(10, 300), 14)>>, PageOf(10, 300)),
           ReaderView(1, "none", FALSE, FALSE,
                      <<Fragment(PageOf(25, 300) \o <<Percent(8)>>, 17)>>, <<Percent(8)>>),
           ReaderView(1, "open", TRUE, FALSE, <<>>, <<>>),
           ReaderView(1, "evaluate", FALSE, FALSE, <<>>, <<>>) }
    ELSE IF asin = "B"
    THEN { ReaderView(1, "none", FALSE, FALSE, <<Fragment(PageOf(5, 200), 13)>>, PageOf(5, 200)),
           ReaderView(1, "none", FALSE, TRUE, <<Fragment(PageOf(5, 200), 13)>>,
                      <<Word("License"), Word("Limit"), Word("Reached")>>),
           ReaderView(1, "goto", TRUE, TRUE, <<Fragment(PageOf(5, 200), 13)>>,
                      <<Word("License"), Word("Limit"), Word("Reached")>>),
           ReaderView(1, "none", FALSE, FALSE, <<Fragment(<<Word("Emma")>>, 60)>>,
                      <<Word("read"), Percent(45)>>) }
    ELSE { ReaderView(0, "none", FALSE, FALSE, <<>>, <<>>),
           ReaderView(1, "none", FALSE, FALSE, <<Fragment(<<Word("Emma")>>, 4)>>, <<Word("Emma")>>),
           ReaderView(1, "goto", TRUE, FALSE, <<>>, PageOf(7, 90)) }

\* the texts sampled for the reader script: each pattern alone, the patterns
\* together in either order, "X of Y" with something after it, and no pattern
ReaderTexts ==
    { PageOf(12, 340) \o <<Percent(45)>>,
      <<Percent(45)>> \o PageOf(12, 340),
      <<Word("Location"), Number(120), Word("of"), Number(3400)>>,
      <<Word("Loc"), Number(7), Word("of"), Number(90), Percent(45)>>,
      <<Word("Location"), Number(120), Word("of"), Number(3400)>> \o PageOf(3, 50),
      <<Number(12), Word("of"), Number(340)>>,
      <<Number(12), Word("of"), Number(340), Percent(45)>>,
      <<Percent(45)>>,
      <<Word("read")>>,
      <<>> }

\* the elements sampled: a text as a short element and as one of 50
\* characters or more, and the element without text
ReaderFragments ==
    { Fragment(t, l) : t \in ReaderTexts \ {<<>>}, l \in {20, 60} } \cup { Fragment(<<>>, 0) }

\* the reader views sampled for the script: up to two elements and a body
ReaderPages ==
    { ReaderView(1, "none", FALSE, FALSE, frs, body) :
         frs \in {<<>>} \cup { <<f>> : f \in ReaderFragments }
                        \cup { <<f, g>> : f \in ReaderFragments, g \in ReaderFragments },
         body \in ReaderTexts }

\* get_book_progress_from_reader: {} when the element is missing or an await
\* raises, the license error when the dialog shows and the way back does not
\* raise, else the script's result
get_book_progress_from_reader(view) ==
    IF view.book_el = 0 THEN <<>>
    ELSE IF view.raises = "open" THEN <<>>
    ELSE IF view.license_dialog
    THEN IF view.raises = "goto" THEN <<>> ELSE [error |-> Some("license_limit")]
    ELSE IF view.raises # "none" THEN <<>>
    ELSE ProgressInfo(ScanPage(view.fragments, view.body))

\* where the page is when get_book_progress_from_reader has returned: where
\* it was when the element is missing, on the library after the goto of the
\* function or of its handler, else still in the reader
PageAfter(view, url) ==
    IF view.book_el = 0 THEN url
    ELSE IF view.raises = "none" \/ view.recovered THEN LIBRARY_URL
    ELSE READER_URL

\* if progress and progress.get("error") == "license_limit"
IsLicenseLimit(p) == DOMAIN p # {} /\ Get(p, "error") = Some("license_limit")

\* if progress and progress.get("current") is not None
HasProgress(p) == DOMAIN p # {} /\ Get(p, "current") # NULL

\* if total_pages and total_pages != 100
HasRealTotal(p) == Get(p, "total") # NULL /\ Get(p, "total")[1] # 0 /\ Get(p, "total")[1] # 100

ScrapeStartedEvent(total_books) ==
    [event |-> "started", total_books |-> total_books, timestamp |-> now]

\* mutant: the index is the one enumerate() counts from 0
BookProgressEvent_from_zero(current, total, book_title, book_asin) ==
    [event |-> "book_progress", current |-> current - 1, total |-> total,
     book_title |-> book_title, book_asin |-> book_asin]

BookProgressEvent(current, total, book_title, book_asin) ==
    [event |-> "book_progress", current |-> current, total |-> total,
     book_title |-> book_title, book_asin |-> book_asin]

BookCompleteEvent(current, total, book_title, book_asin, percent_complete, success, error) ==
    [event |-> "book_complete", current |-> current, total |-> total,
     book_title |-> book_title, book_asin |-> book_asin,
     percent_complete |-> percent_complete, success |-> success, error |-> error]

ScrapeErrorEvent(message) ==
    [event |-> "error", message |-> message, recoverable |-> FALSE]

ScrapeCompletedEvent(books_scraped, with_progress, license_limit) ==
    [event |-> "completed", success |-> TRUE, books_scraped |-> books_scraped,
     books_with_progress |-> with_progress, timestamp |-> now,
     license_limit_books |-> IF license_limit # <<>> THEN Some(license_limit) ELSE NULL]

\* the dict the batch pass returns on failure
ErrorResult(message) == [success |-> FALSE, error |-> message, timestamp |-> now]

\* and on success: license_limit_books only when there are any
SummaryResult(books_scraped, with_progress, license_limit) ==
    IF license_limit # <<>>
    THEN [success |-> TRUE, books_scraped |-> books_scraped,
          books_with_progress |-> with_progress, timestamp |-> now,
          license_limit_books |-> license_limit]
    ELSE [success |-> TRUE, books_scraped |-> books_scraped,
          books_with_progress |-> with_progress, timestamp |-> now]

\* yield: only the streaming pass has a consumer
Yield(evs, e) == IF mode = "streaming" THEN Append(evs, e) ELSE evs

\* mutant: the failure ends the pass without a word
Abort_silent(evs, message) ==
    /\ pc' = "done"
    /\ events' = evs
    /\ result' = IF mode = "batch" THEN Some(ErrorResult(message)) ELSE result

\* the early failure returns and "except Exception as e", entered with the
\* events yielded so far
Abort(evs, message) ==
    /\ pc' = "done"
    /\ events' = Yield(evs, ScrapeErrorEvent(message))
    /\ result' = IF mode = "batch" THEN Some(ErrorResult(message)) ELSE result

\* mutant: the loop ends one item early
NextItem_short(i) == IF i < Len(listing) THEN "item" ELSE "finish"

\* the loop goes to the next item or ends
NextItem(i) == IF i <= Len(listing) THEN "item" ELSE "finish"

\* a pass begins: the locals are fresh and is_logged_in is called
scrape_and_save(m) ==
    /\ pc \in {"idle", "done"}
    /\ now < PassStart + MaxPasses
    /\ mode' = m
    /\ is_logged_in_begin
    /\ listing' = <<>>
    /\ idx' = 0
    /\ progress' = NULL
    /\ books_with_progress' = 0
    /\ books_with_license_limit' = <<>>
    /\ events' = <<>>
    /\ result' = NULL
    /\ calls' = <<>>
    /\ reader_page' = NULL
    /\ UNCHANGED <<vars, credentials, session_vars>>

\* mutant: one of the two is enough
HasCredentials_either(cred) == cred.email \/ cred.password

\* if settings.amazon_email and settings.amazon_password
HasCredentials(cred) == cred.email /\ cred.password

\* the branch on login_status; the locals of is_logged_in are gone
check_login_status ==
    /\ pc = "checked"
    /\ attempt' = 0
    /\ page_ops' = <<>>
    /\ IF login_status = "2fa"
       THEN Abort(events, "2FA/verification required")
       ELSE IF login_status = "False"
       THEN IF HasCredentials(credentials)
            THEN pc' = "login" /\ UNCHANGED <<events, result>>
            ELSE Abort(events, "Not logged in and no credentials configured")
       ELSE pc' = "get_library" /\ UNCHANGED <<events, result>>
    /\ UNCHANGED <<vars, mode, credentials, reader_page, page_url, login_status,
                   listing, idx, progress, books_with_progress,
                   books_with_license_limit, calls, session_vars>>

\* await self.login(email, password): a wait times out, or login returns
login ==
    /\ pc = "login"
    /\ calls' = Append(calls, <<"login">>)
    /\ \/ /\ Abort(events, "Timeout")
          /\ page_url' \in Urls
       \/ /\ page_url' \in LoginReturnsOn
          /\ pc' = "get_library"
          /\ UNCHANGED <<events, result>>
    /\ UNCHANGED <<vars, mode, credentials, reader_page, attempt, page_ops, login_status,
                   listing, idx, progress, books_with_progress,
                   books_with_license_limit, session_vars>>

\* books = await self.get_library_and_progress(), then the started event.
\* The page goes to the library URL unless it is there; the settle delay lets
\* the clock move; a page that is not the library holds no library item.
get_library_and_progress ==
    /\ pc = "get_library"
    /\ calls' = Append(calls, <<"get_library_and_progress">>)
    /\ \/ /\ Abort(events, "Timeout")
          /\ page_url' \in Urls
          /\ UNCHANGED <<now, listing, idx>>
       \/ /\ page_url' \in (IF IsLibrary(page_url) THEN {page_url} ELSE Urls)
          /\ now' = now + 1
          /\ listing' \in (IF IsLibrary(page_url') THEN Listings ELSE {<<>>})
          /\ events' = Yield(events, ScrapeStartedEvent(Len(listing')))
          /\ idx' = 1
          /\ pc' = IF listing' # <<>> THEN "item" ELSE "finish"
          /\ UNCHANGED result
    /\ UNCHANGED <<books, reading_progress, daily_stats, settings, ret, mode, credentials, reader_page,
                   attempt, page_ops, login_status, progress, books_with_progress,
                   books_with_license_limit, session_vars>>

\* the loop body up to the reader: the book_progress event and the first
\* upsert_book, which stores the listing's metadata or raises
item_begin ==
    /\ pc = "item"
    /\ LET book  == listing[idx]
           title == TitlePrefix(book.title)
           evs   == Yield(events, BookProgressEvent(idx, Len(listing), title, book.asin))
       IN  \/ /\ upsert_book(book.asin, book.title, book.authors, book.totalPages, book.coverUrl)
              /\ calls' = Append(calls, <<"upsert_book", book.asin, book.totalPages>>)
              /\ events' = evs
              /\ pc' = "open"
              /\ UNCHANGED result
           \/ /\ Abort(evs, "database is locked")
              /\ UNCHANGED <<vars, calls>>
    /\ UNCHANGED <<mode, credentials, reader_page, page_url, attempt, page_ops, login_status, listing,
                   idx, progress, books_with_progress, books_with_license_limit,
                   session_vars>>

\* progress = await self.get_book_progress_from_reader(asin) and the branch
\* on it, up to the next ledger call or the book_complete event
item_open ==
    /\ pc = "open"
    /\ \E view \in ReaderViews(listing[idx].asin, page_url) :
          LET book  == listing[idx]
              title == TitlePrefix(book.title)
              p     == get_book_progress_from_reader(view)
          IN  /\ reader_page' = Some(view)
              /\ page_url' = PageAfter(view, page_url)
              /\ calls' = Append(calls, <<"get_book_progress_from_reader", book.asin>>)
              /\ progress' = Some(p)
              /\ IF IsLicenseLimit(p)
                 THEN /\ books_with_license_limit' = Append(books_with_license_limit, title)
                      /\ events' = Yield(events,
                            BookCompleteEvent(idx, Len(listing), title, book.asin,
                                              NULL, FALSE, Some("license_limit")))
                      /\ idx' = idx + 1
                      /\ pc' = NextItem(idx + 1)
                 ELSE IF HasProgress(p)
                 THEN /\ pc' = IF HasRealTotal(p) THEN "update_total" ELSE "record"
                      /\ UNCHANGED <<books_with_license_limit, events, idx>>
                 ELSE /\ events' = Yield(events,
                            BookCompleteEvent(idx, Len(listing), title, book.asin,
                                              NULL, TRUE, NULL))
                      /\ idx' = idx + 1
                      /\ pc' = NextItem(idx + 1)
                      /\ UNCHANGED books_with_license_limit
    /\ UNCHANGED <<vars, mode, credentials, attempt, page_ops, login_status,
                   listing, books_with_progress, result, session_vars>>

\* progress_info = await self.page.evaluate(...): the reader script alone, on
\* the view the page shows
evaluate_progress_info ==
    /\ pc = "evaluate"
    /\ progress' = Some(ProgressInfo(ScanPage(reader_page[1].fragments, reader_page[1].body)))
    /\ pc' = "evaluated"
    /\ UNCHANGED <<vars, mode, credentials, page_url, reader_page, attempt, page_ops,
                   login_status, listing, idx, books_with_progress,
                   books_with_license_limit, events, result, calls, session_vars>>

\* the second upsert_book, with the total the reader view showed
item_update_total ==
    /\ pc = "update_total"
    /\ LET book == listing[idx]
           p    == progress[1]
       IN  \/ /\ upsert_book(book.asin, book.title, book.authors, p.total, book.coverUrl)
              /\ calls' = Append(calls, <<"upsert_book", book.asin, p.total>>)
              /\ pc' = "record"
              /\ UNCHANGED <<events, result>>
           \/ /\ Abort(events, "database is locked")
              /\ UNCHANGED <<vars, calls>>
    /\ UNCHANGED <<mode, credentials, reader_page, page_url, attempt, page_ops, login_status, listing,
                   idx, progress, books_with_progress, books_with_license_limit,
                   session_vars>>

\* record_progress, the count and the book_complete event; or a statement
\* after the INSERT of the snapshot raises and the pass ends
item_record ==
    /\ pc = "record"
    /\ LET book  == listing[idx]
           title == TitlePrefix(book.title)
           p     == progress[1]
       IN  \/ /\ record_progress(book.asin, p.current[1], p.percent[1])
              /\ calls' = Append(calls, <<"record_progress", book.asin, p.current[1], p.percent[1]>>)
              /\ books_with_progress' = books_with_progress + 1
              /\ events' = Yield(events,
                    BookCompleteEvent(idx, Len(listing), title, book.asin,
                                      p.percent, TRUE, NULL))
              /\ idx' = idx + 1
              /\ pc' = NextItem(idx + 1)
              /\ UNCHANGED result
           \/ /\ Abort(events, "database is locked")
              /\ reading_progress' =
                    Rollback(reading_progress,
                             InsertProgress(reading_progress, book.asin, p.current[1],
                                            p.percent[1], now))
              /\ UNCHANGED <<now, books, daily_stats, settings, ret, calls,
                             books_with_progress, idx>>
    /\ UNCHANGED <<mode, credentials, reader_page, page_url, attempt, page_ops, login_status, listing,
                   progress, books_with_license_limit, session_vars>>

\* after the loop: the summary, returned or yielded as the completed event
finish ==
    /\ pc = "finish"
    /\ pc' = "done"
    /\ events' = Yield(events,
          ScrapeCompletedEvent(Len(listing), books_with_progress, books_with_license_limit))
    /\ result' = IF mode = "batch"
                 THEN Some(SummaryResult(Len(listing), books_with_progress,
                                         books_with_license_limit))
                 ELSE result
    /\ UNCHANGED <<vars, mode, credentials, reader_page, page_url, attempt, page_ops, login_status,
                   listing, idx, progress, books_with_progress,
                   books_with_license_limit, calls, session_vars>>

----------------------------------------------------------------------------
(* The scraper singleton: get_scraper, close_scraper, run_scrape             *)
(* (src/scraper.py) and the tasks of main.py that call them                  *)
(*                                                                           *)
(* The tasks share one event loop: a step runs from one await to the next.   *)
(* scheduled_scrape and trigger_refresh call run_scrape; lifespan, once the  *)
(* application stops, cancels the scheduled task and calls close_scraper.    *)
(* A KindleScraper object is the record of what it holds: the Playwright     *)
(* driver, the browser context (the session) and the page.  A pass is the    *)
(* sequence of its suspension points here; what it reads and writes is the   *)
(* subject of the sections above.                                            *)

Runners == {"scheduled_scrape", "trigger_refresh"}

\* KindleScraper.__init__
KindleScraper == [playwright |-> FALSE, context |-> FALSE, page |-> FALSE]

\* the KindleScraper objects whose browser context is open
OpenSessions == {i \in DOMAIN browser : browser[i].context}

\* mutant: close() forgets the context
CloseContext_skip(b) == b

\* close(): await self.context.close(); self.context = None; self.page = None
CloseContext(b) == [b EXCEPT !.context = FALSE, !.page = FALSE]

\* the awaits of a pass: page.goto, wait_for_selector and the page scripts,
\* asyncio.sleep, and the goto of get_book_progress_from_reader's handler
PassPoints == {"navigation", "selector_wait", "settle_delay", "recovery_navigation"}

\* the awaits that operate the page
PageOperations == {"navigation", "selector_wait", "recovery_navigation"}

\* the page operations task t has executed in its running pass
OpsOf(t) == {k \in DOMAIN page_log : page_log[k][2] = t}

RECURSIVE Without(_, _)
\* the log once the pass of task t is over
Without(log, t) ==
    IF log = <<>> THEN <<>>
    ELSE IF log[1][2] = t THEN Without(Tail(log), t)
    ELSE <<log[1]>> \o Without(Tail(log), t)

\* where a task is after run_scrape has returned or raised: the interval
\* sleep of scheduled_scrape, the end of the request of trigger_refresh
AfterRun(t) == IF t = "scheduled_scrape" THEN "sleep" ELSE "idle"

\* mutant: the scheduled task has no handler for the exception
AfterException_unhandled(t) == IF t = "scheduled_scrape" THEN "crashed" ELSE "idle"

\* where a task is after run_scrape raised an Exception: scheduled_scrape
\* logs it and sleeps, trigger_refresh lets it through to the framework
AfterException(t) == AfterRun(t)

\* if result["success"]: last_scrape_time = result["timestamp"]
StoreLastScrape(res, last) == IF res.success THEN Some(res.timestamp) ELSE last

\* what scrape_and_save returns: the summary, or the error of a failure path
PassResults ==
    { [success |-> TRUE, books_scraped |-> Some(n), error |-> NULL, timestamp |-> now] : n \in {0, 1} }
       \cup { [success |-> FALSE, books_scraped |-> NULL, error |-> Some("Timeout"), timestamp |-> now] }

\* run_scrape returns res to task t, which stores the time of a success
Returns(t, res) ==
    /\ task' = [task EXCEPT ![t] = [pc |-> AfterRun(t), scraper |-> NULL, cancel |-> FALSE,
                                    out |-> Some(res), raised |-> FALSE]]
    /\ last_scrape_time' = StoreLastScrape(res, last_scrape_time)
    /\ page_log' = Without(page_log, t)

\* scraper.scrape_and_save() begins on the object get_scraper returned: the
\* first await is the goto of is_logged_in.  On an object without a page
\* is_logged_in returns False at once and the pass fails without an await.
Enters(t) ==
    IF browser[scraper[1]].page
    THEN /\ task' = [task EXCEPT ![t].pc = "navigation", ![t].scraper = scraper]
         /\ UNCHANGED <<page_log, last_scrape_time>>
    ELSE Returns(t, [success |-> FALSE, books_scraped |-> NULL,
                     error |-> Some("Not logged in and no credentials configured"),
                     timestamp |-> now])

\* run_scrape is called and get_scraper reaches "async with _scraper_lock"
run_scrape(t) ==
    /\ task[t].pc \in {"idle", "sleep"}
    /\ ~task[t].cancel
    /\ t = "trigger_refresh" => task["lifespan"].pc = "idle"
    /\ task' = [task EXCEPT ![t].pc = "get_scraper"]
    /\ UNCHANGED <<vars, pass_vars, scraper, scraper_lock, browser, page_log, last_scrape_time>>

\* get_scraper with the lock: the singleton is returned, or constructed and
\* init_browser awaited with the lock held
get_scraper(t) ==
    /\ task[t].pc = "get_scraper"
    /\ ~task[t].cancel
    /\ scraper_lock = NULL
    /\ IF scraper = NULL
       THEN /\ browser' = Append(browser, KindleScraper)
            /\ scraper' = Some(Len(browser) + 1)
            /\ scraper_lock' = Some(t)
            /\ task' = [task EXCEPT ![t].pc = "init_browser"]
            /\ UNCHANGED <<page_log, last_scrape_time>>
       ELSE /\ UNCHANGED <<scraper, scraper_lock, browser>>
            /\ Enters(t)
    /\ UNCHANGED <<vars, pass_vars>>

\* init_browser, await by await: the driver starts, the persistent context is
\* launched, the page is opened, the init script is added and get_scraper
\* returns; or an await raises, which releases the lock and ends run_scrape
init_browser(t) ==
    /\ task[t].pc = "init_browser"
    /\ ~task[t].cancel
    /\ LET i == scraper[1]
           b == browser[i]
       IN  \/ /\ ~b.playwright
              /\ browser' = [browser EXCEPT ![i].playwright = TRUE]
              /\ UNCHANGED <<scraper_lock, task, page_log, last_scrape_time>>
           \/ /\ b.playwright /\ ~b.context
              /\ browser' = [browser EXCEPT ![i].context = TRUE]
              /\ UNCHANGED <<scraper_lock, task, page_log, last_scrape_time>>
           \/ /\ b.context /\ ~b.page
              /\ browser' = [browser EXCEPT ![i].page = TRUE]
              /\ UNCHANGED <<scraper_lock, task, page_log, last_scrape_time>>
           \/ /\ b.page
              /\ scraper_lock' = NULL
              /\ UNCHANGED browser
              /\ Enters(t)
           \/ /\ scraper_lock' = NULL
              /\ task' = [task EXCEPT ![t].pc = AfterException(t), ![t].raised = TRUE,
                                      ![t].out = NULL]
              /\ UNCHANGED <<browser, page_log, last_scrape_time>>
    /\ UNCHANGED <<vars, pass_vars, scraper>>

\* the handlers an exception thrown at an await of the pass meets: the goto
\* of the item handler sits in "try: ... except: pass"; "except Exception"
\* everywhere else lets a CancelledError through
Swallows(point) == point = "recovery_navigation"

\* where a pass goes after an await: on through the page, to the handler of
\* an item that raised, or to its end
AfterPoint(point) ==
    CASE point = "navigation"          -> {"selector_wait"}
      [] point = "selector_wait"       -> {"settle_delay"}
      [] point = "settle_delay"        -> {"navigation", "selector_wait", "recovery_navigation", "return"}
      [] point = "recovery_navigation" -> {"navigation", "return"}

\* the pass of task t goes on to the await `next`, or returns res
Continues(t, next, res) ==
    IF next = "return"
    THEN Returns(t, res)
    ELSE /\ task' = [task EXCEPT ![t].pc = next]
         /\ UNCHANGED last_scrape_time

\* one await of the pass of task t ends.  A page operation is executed on the
\* page of its scraper object, or the settle delay is over, or the await
\* raises: "except: pass" of the item handler goes on, "except Exception" of
\* scrape_and_save returns an error result.  scrape_and_save holds no lock.
scrape_and_save_step(t) ==
    /\ task[t].pc \in PassPoints
    /\ ~task[t].cancel
    /\ \/ /\ task[t].pc \in PageOperations
          /\ Cardinality(OpsOf(t)) < MaxPageOps
          /\ \E next \in AfterPoint(task[t].pc) \ {"return"} :
                /\ page_log' = Append(page_log, <<task[t].scraper[1], t>>)
                /\ Continues(t, next, NULL)
       \/ /\ task[t].pc = "settle_delay" \/ Swallows(task[t].pc)
          /\ \E next \in AfterPoint(task[t].pc), res \in PassResults :
                /\ next # "return" => page_log' = page_log
                /\ Continues(t, next, res)
       \/ /\ ~Swallows(task[t].pc)
          /\ \E res \in {r \in PassResults : ~r.success} : Returns(t, res)
    /\ UNCHANGED <<vars, pass_vars, scraper, scraper_lock, browser>>

\* lifespan after the yield: scrape_task.cancel(), then await scrape_task
lifespan_cancel ==
    /\ task["lifespan"].pc = "idle"
    /\ task' = [task EXCEPT !["lifespan"].pc = "await_task",
                            !["scheduled_scrape"].cancel = TRUE]
    /\ UNCHANGED <<vars, pass_vars, scraper, scraper_lock, browser, page_log, last_scrape_time>>

\* the CancelledError is thrown into the scheduled task at the await it is
\* suspended at.  Swallowed, the pass goes on as after the handler's goto;
\* otherwise it leaves "async with" (which releases the lock), scrape_and_save
\* and run_scrape, and scheduled_scrape re-raises it: the task is over.
CancelledError ==
    LET t == "scheduled_scrape"
    IN  /\ task[t].cancel
        /\ IF Swallows(task[t].pc)
           THEN /\ \E next \in AfterPoint(task[t].pc), res \in PassResults :
                      /\ IF next = "return"
                         THEN Returns(t, res)
                         ELSE /\ task' = [task EXCEPT ![t].pc = next, ![t].cancel = FALSE]
                              /\ UNCHANGED <<page_log, last_scrape_time>>
                /\ UNCHANGED scraper_lock
           ELSE /\ task' = [task EXCEPT ![t] = [pc |-> "cancelled", scraper |-> NULL,
                                                cancel |-> FALSE, out |-> task[t].out,
                                                raised |-> task[t].raised]]
                /\ scraper_lock' = IF scraper_lock = Some(t) THEN NULL ELSE scraper_lock
                /\ page_log' = Without(page_log, t)
                /\ UNCHANGED last_scrape_time
        /\ UNCHANGED <<vars, pass_vars, scraper, browser>>

\* await scrape_task returns once the task is over
lifespan_await ==
    /\ task["lifespan"].pc = "await_task"
    /\ task["scheduled_scrape"].pc \in {"cancelled", "crashed"}
    /\ task' = [task EXCEPT !["lifespan"].pc = "close_scraper"]
    /\ UNCHANGED <<vars, pass_vars, scraper, scraper_lock, browser, page_log, last_scrape_time>>

\* close_scraper with the lock
close_scraper ==
    /\ task["lifespan"].pc = "close_scraper"
    /\ scraper_lock = NULL
    /\ IF scraper # NULL
       THEN /\ scraper_lock' = Some("lifespan")
            /\ task' = [task EXCEPT !["lifespan"].pc = "close_context"]
       ELSE /\ task' = [task EXCEPT !["lifespan"].pc = "shutdown"]
            /\ UNCHANGED scraper_lock
    /\ UNCHANGED <<vars, pass_vars, scraper, browser, page_log, last_scrape_time>>

\* await _scraper.close() and _scraper = None: the context is closed, the
\* driver stopped, the singleton forgotten; or an await raises
close ==
    /\ task["lifespan"].pc \in {"close_context", "close_playwright", "close_done"}
    /\ LET i == scraper[1]
       IN  \/ /\ task["lifespan"].pc = "close_context"
              /\ browser' = [browser EXCEPT ![i] = CloseContext(browser[i])]
              /\ task' = [task EXCEPT !["lifespan"].pc = "close_playwright"]
              /\ UNCHANGED <<scraper, scraper_lock>>
           \/ /\ task["lifespan"].pc = "close_playwright"
              /\ browser' = [browser EXCEPT ![i].playwright = FALSE]
              /\ task' = [task EXCEPT !["lifespan"].pc = "close_done"]
              /\ UNCHANGED <<scraper, scraper_lock>>
           \/ /\ task["lifespan"].pc = "close_done"
              /\ scraper' = NULL
              /\ scraper_lock' = NULL
              /\ task' = [task EXCEPT !["lifespan"].pc = "shutdown"]
              /\ UNCHANGED browser
           \/ /\ task["lifespan"].pc # "close_done"
              /\ scraper_lock' = NULL
              /\ task' = [task EXCEPT !["lifespan"].pc = "shutdown", !["lifespan"].raised = TRUE]
              /\ UNCHANGED <<scraper, browser>>
    /\ UNCHANGED <<vars, pass_vars, page_log, last_scrape_time>>

----------------------------------------------------------------------------
(* The two loops over the listing, side by side                              *)
(*                                                                           *)
(* scrape_and_save (archived/src/scraper.py:663-724) and                     *)
(* scrape_and_save_streaming (783-869) as functions of the listing and of    *)
(* what each item meets: the view its reader opens on and the ledger call    *)
(* that raises for it, if any.  A loop state holds the ledger calls made,    *)
(* the two locals, the events yielded and whether an exception has left the  *)
(* loop.                                                                     *)

LedgerCalls == {"upsert_book", "upsert_book_total", "record_progress"}

\* what an item can meet: any view of its reader, on or off the library
\* page, and no ledger failure or one
ItemOutcomes(asin) ==
    [view   : ReaderViews(asin, LIBRARY_URL) \cup ReaderViews(asin, READER_URL),
     raises : {"none"} \cup LedgerCalls]

LoopStart ==
    [calls |-> <<>>, books_with_progress |-> 0, books_with_license_limit |-> <<>>,
     events |-> <<>>, raised |-> FALSE]

\* a ledger call of the loop body: it raises, or it is made
Called(s, outcome, name, call) ==
    IF s.raised THEN s
    ELSE IF outcome.raises = name THEN [s EXCEPT !.raised = TRUE]
    ELSE [s EXCEPT !.calls = Append(@, call)]

\* the body of "for book in books:" in scrape_and_save: a license-limited
\* item is noted and the loop continues; a position is recorded, after the
\* total it came with if that is a real one; anything else is logged
BatchItem(s, items, i, outcome) ==
    LET book  == items[i]
        title == TitlePrefix(book.title)
        s1    == Called(s, outcome, "upsert_book", <<"upsert_book", book.asin, book.totalPages>>)
        p     == get_book_progress_from_reader(outcome.view)
    IN  IF s1.raised THEN s1
        ELSE IF IsLicenseLimit(p)
        THEN [s1 EXCEPT !.books_with_license_limit = Append(@, title)]
        ELSE IF HasProgress(p)
        THEN LET s2 == IF HasRealTotal(p)
                       THEN Called(s1, outcome, "upsert_book_total",
                                   <<"upsert_book", book.asin, p.total>>)
                       ELSE s1
                 s3 == Called(s2, outcome, "record_progress",
                              <<"record_progress", book.asin, p.current[1], p.percent[1]>>)
             IN  IF s3.raised THEN s3
                 ELSE [s3 EXCEPT !.books_with_progress = @ + 1]
        ELSE s1

\* mutant: the streaming loop leaves the total of the reader view aside
StreamingItem_listing_total(s, items, i, outcome) ==
    LET book  == items[i]
        title == TitlePrefix(book.title)
        s0    == [s EXCEPT !.events =
                     Append(@, BookProgressEvent(i, Len(items), title, book.asin))]
        s1    == Called(s0, outcome, "upsert_book", <<"upsert_book", book.asin, book.totalPages>>)
        p     == get_book_progress_from_reader(outcome.view)
        s2    == IF ~s1.raised /\ ~IsLicenseLimit(p) /\ HasProgress(p)
                 THEN Called(s1, outcome, "record_progress",
                             <<"record_progress", book.asin, p.current[1], p.percent[1]>>)
                 ELSE s1
    IN  IF s2.raised THEN s2
        ELSE IF IsLicenseLimit(p)
        THEN [s2 EXCEPT !.books_with_license_limit = Append(@, title),
                        !.events = Append(@, BookCompleteEvent(i, Len(items), title, book.asin,
                                                               NULL, FALSE, Some("license_limit")))]
        ELSE IF HasProgress(p)
        THEN [s2 EXCEPT !.books_with_progress = @ + 1,
                        !.events = Append(@, BookCompleteEvent(i, Len(items), title, book.asin,
                                                               p.percent, TRUE, NULL))]
        ELSE [s2 EXCEPT !.events = Append(@, BookCompleteEvent(i, Len(items), title, book.asin,
                                                               NULL, TRUE, NULL))]

\* the body of "for idx, book in enumerate(books):" in
\* scrape_and_save_streaming: book_progress is yielded, the item is handled
\* in an if / elif / else that sets success, error and percent_complete, and
\* book_complete is yielded with them
StreamingItem(s, items, i, outcome) ==
    LET book  == items[i]
        title == TitlePrefix(book.title)
        s0    == [s EXCEPT !.events =
                     Append(@, BookProgressEvent(i, Len(items), title, book.asin))]
        s1    == Called(s0, outcome, "upsert_book", <<"upsert_book", book.asin, book.totalPages>>)
        p     == get_book_progress_from_reader(outcome.view)
        s2    == IF ~s1.raised /\ ~IsLicenseLimit(p) /\ HasProgress(p) /\ HasRealTotal(p)
                 THEN Called(s1, outcome, "upsert_book_total",
                             <<"upsert_book", book.asin, p.total>>)
                 ELSE s1
        s3    == IF ~s2.raised /\ ~IsLicenseLimit(p) /\ HasProgress(p)
                 THEN Called(s2, outcome, "record_progress",
                             <<"record_progress", book.asin, p.current[1], p.percent[1]>>)
                 ELSE s2
    IN  IF s3.raised THEN s3
        ELSE IF IsLicenseLimit(p)
        THEN [s3 EXCEPT !.books_with_license_limit = Append(@, title),
                        !.events = Append(@, BookCompleteEvent(i, Len(items), title, book.asin,
                                                               NULL, FALSE, Some("license_limit")))]
        ELSE IF HasProgress(p)
        THEN [s3 EXCEPT !.books_with_progress = @ + 1,
                        !.events = Append(@, BookCompleteEvent(i, Len(items), title, book.asin,
                                                               p.percent, TRUE, NULL))]
        ELSE [s3 EXCEPT !.events = Append(@, BookCompleteEvent(i, Len(items), title, book.asin,
                                                               NULL, TRUE, NULL))]

RECURSIVE BatchLoop(_, _, _, _)
BatchLoop(s, items, outcomes, i) ==
    IF i > Len(items) \/ s.raised THEN s
    ELSE BatchLoop(BatchItem(s, items, i, outcomes[i]), items, outcomes, i + 1)

RECURSIVE StreamingLoop(_, _, _, _)
StreamingLoop(s, items, outcomes, i) ==
    IF i > Len(items) \/ s.raised THEN s
    ELSE StreamingLoop(StreamingItem(s, items, i, outcomes[i]), items, outcomes, i + 1)

\* scrape_and_save from the listing on: the ledger calls and the dict returned
BatchPass(items, outcomes) ==
    LET s == BatchLoop(LoopStart, items, outcomes, 1)
    IN  [calls  |-> s.calls,
         result |-> IF s.raised THEN ErrorResult("database is locked")
                    ELSE SummaryResult(Len(items), s.books_with_progress,
                                       s.books_with_license_limit)]

\* scrape_and_save_streaming from the listing on: the ledger calls and the
\* events yielded
StreamingPass(items, outcomes) ==
    LET s0 == [LoopStart EXCEPT !.events = <<ScrapeStartedEvent(Len(items))>>]
        s  == StreamingLoop(s0, items, outcomes, 1)
    IN  [calls  |-> s.calls,
         events |-> Append(s.events,
                           IF s.raised THEN ScrapeErrorEvent("database is locked")
                           ELSE ScrapeCompletedEvent(Len(items), s.books_with_progress,
                                                     s.books_with_license_limit))]

\* both passes on the listing and the outcomes at hand
run_both_passes ==
    /\ pc = "listed"
    /\ pc' = "done"
    /\ ret' = [op |-> "scrape_and_save", batch |-> BatchPass(listing, reader_page),
               streaming |-> StreamingPass(listing, reader_page)]
    /\ UNCHANGED <<now, books, reading_progress, daily_stats, settings, mode, credentials,
                   page_url, reader_page, attempt, page_ops, login_status, listing, idx,
                   progress, books_with_progress, books_with_license_limit, events,
                   result, calls, session_vars>>

----------------------------------------------------------------------------

(* Specifications *)

\* the clock moves between two calls
Tick ==
    /\ \E t \in Instants : t > now /\ now' = t
    /\ UNCHANGED <<books, reading_progress, daily_stats, settings, ret>>

RecordProgress ==
    /\ Len(reading_progress) < MaxSnapshots
    /\ \E c \in ProgressInputs : record_progress(c[1], c[2], PercentAt(c[2]))

RecordProgressLibrary ==
    /\ Len(reading_progress) < MaxLibrarySnapshots
    /\ \E c \in LibraryProgressInputs : record_progress(c[1], c[2], PercentAt(c[2]))

SetSetting == \E k \in SettingKeys : \E v \in SettingInputs[k] : set_setting(k, v)

\* the ledger: snapshots, daily aggregates and the settings that steer them
Next ==
    \/ Tick /\ UNCHANGED <<pass_vars, session_vars>>
    \/ SetSetting /\ UNCHANGED <<pass_vars, session_vars>>
    \/ RecordProgress /\ UNCHANGED <<pass_vars, session_vars>>
    \/ get_today_stats_call /\ UNCHANGED <<pass_vars, session_vars>>
    \/ reset_daily_stats /\ UNCHANGED <<pass_vars, session_vars>>
    \/ reset_all_progress /\ UNCHANGED <<pass_vars, session_vars>>

Spec == Init /\ [][Next]_vars

\* the library: book records joined with their snapshots
NextLibrary ==
    \/ Tick /\ UNCHANGED <<pass_vars, session_vars>>
    \/ \E a \in Asins, b \in BookInputs :
          /\ upsert_book(a, b.title, b.authors, b.total_pages, b.cover_url)
          /\ UNCHANGED <<pass_vars, session_vars>>
    \/ RecordProgressLibrary /\ UNCHANGED <<pass_vars, session_vars>>
    \/ get_library_call /\ UNCHANGED <<pass_vars, session_vars>>
    \/ reset_all_progress /\ UNCHANGED <<pass_vars, session_vars>>

SpecLibrary == Init /\ [][NextLibrary]_vars

\* the day key: every hour of two days against every reset hour
KeyInstants == (1 * HoursPerDay)..(3 * HoursPerDay - 1)
ResetHours == 0..(HoursPerDay - 1)

InitKey ==
    /\ init_db
    /\ now = 1 * HoursPerDay
    /\ ret = [op |-> "init_db"]
    /\ PassIdle /\ credentials = NoCredentials
    /\ SessionIdle

TickHour ==
    /\ now + 1 \in KeyInstants
    /\ now' = now + 1
    /\ UNCHANGED <<books, reading_progress, daily_stats, settings, ret>>

NextKey ==
    \/ TickHour /\ UNCHANGED <<pass_vars, session_vars>>
    \/ \E h \in ResetHours :
          set_setting("day_reset_hour", h) /\ UNCHANGED <<pass_vars, session_vars>>
    \/ get_today_key_call /\ UNCHANGED <<pass_vars, session_vars>>

SpecKey == InitKey /\ [][NextKey]_vars

----------------------------------------------------------------------------
(* Specifications of the scraper *)

InitPass ==
    /\ init_db
    /\ now = PassStart
    /\ ret = [op |-> "init_db"]
    /\ PassIdle /\ credentials \in CredentialConfigs
    /\ SessionIdle

\* passes, batch or streaming, one after the other on one ledger
NextPass ==
    \/ \E m \in Modes : scrape_and_save(m)
    \/ is_logged_in_attempt
    \/ is_logged_in_exhausted
    \/ check_login_status
    \/ login
    \/ get_library_and_progress
    \/ item_begin
    \/ item_open
    \/ item_update_total
    \/ item_record
    \/ finish

SpecPass == InitPass /\ [][NextPass]_all_vars

\* is_logged_in called on its own, again and again
CallIsLoggedIn ==
    /\ pc \in {"idle", "checked"}
    /\ is_logged_in_begin
    /\ UNCHANGED <<vars, mode, credentials, reader_page, listing, idx, progress, books_with_progress,
                   books_with_license_limit, events, result, calls, session_vars>>

NextNavigator ==
    \/ CallIsLoggedIn
    \/ is_logged_in_attempt
    \/ is_logged_in_exhausted

\* every await of the loop body returns or times out, and the event loop
\* resumes the coroutine: a started call keeps taking steps
SpecNavigator ==
    /\ InitPass
    /\ [][NextNavigator]_all_vars
    /\ WF_all_vars(is_logged_in_attempt)
    /\ WF_all_vars(is_logged_in_exhausted)

\* requests to PUT /settings, one after the other
NextSettings == \E update \in SettingsUpdates : update_app_settings(update)

SpecSettings == Init /\ [][NextSettings]_all_vars

\* the reader script on every sampled view
InitReader ==
    /\ init_db
    /\ now = PassStart
    /\ ret = [op |-> "init_db"]
    /\ pc = "evaluate"
    /\ mode = "batch"
    /\ credentials = NoCredentials
    /\ page_url = READER_URL
    /\ reader_page \in {Some(v) : v \in ReaderPages}
    /\ attempt = 0
    /\ page_ops = <<>>
    /\ login_status = "True"
    /\ listing = <<LibraryItems.A>>
    /\ idx = 1
    /\ progress = NULL
    /\ books_with_progress = 0
    /\ books_with_license_limit = <<>>
    /\ events = <<>>
    /\ result = NULL
    /\ calls = <<>>
    /\ SessionIdle

NextReader == evaluate_progress_info

SpecReader == InitReader /\ [][NextReader]_all_vars

\* a listing and, for each of its items, what the item meets; reader_page
\* holds the outcomes of all items here
InitBoth ==
    /\ init_db
    /\ now = PassStart
    /\ ret = [op |-> "init_db"]
    /\ pc = "listed"
    /\ mode = "batch"
    /\ credentials = NoCredentials
    /\ page_url = LIBRARY_URL
    /\ listing \in Listings
    /\ reader_page \in [DOMAIN listing -> UNION {ItemOutcomes(a) : a \in {"A", "B", "C"}}]
    /\ \A i \in DOMAIN listing : reader_page[i] \in ItemOutcomes(listing[i].asin)
    /\ attempt = 0
    /\ page_ops = <<>>
    /\ login_status = "True"
    /\ idx = 1
    /\ progress = NULL
    /\ books_with_progress = 0
    /\ books_with_license_limit = <<>>
    /\ events = <<>>
    /\ result = NULL
    /\ calls = <<>>
    /\ SessionIdle

NextBoth == run_both_passes

\* the batch loop and the streaming loop on the same listing and outcomes
SpecBoth == InitBoth /\ [][NextBoth]_all_vars

InitSession ==
    /\ init_db
    /\ now = PassStart
    /\ ret = [op |-> "init_db"]
    /\ PassIdle /\ credentials = NoCredentials
    /\ SessionIdle

\* the periodic task, manual refreshes and the shutdown, interleaved
NextSession ==
    \/ \E t \in Runners : run_scrape(t)
    \/ \E t \in Runners : get_scraper(t)
    \/ \E t \in Runners : init_browser(t)
    \/ \E t \in Runners : scrape_and_save_step(t)
    \/ lifespan_cancel
    \/ CancelledError
    \/ lifespan_await
    \/ close_scraper
    \/ close

SpecSession == InitSession /\ [][NextSession]_all_vars

\* the same, with the interval sleep of scheduled_scrape coming to its end
SpecScheduler ==
    /\ InitSession
    /\ [][NextSession]_all_vars
    /\ WF_all_vars(run_scrape("scheduled_scrape"))

----------------------------------------------------------------------------
(* Properties of the ledger *)

\* the date keys the sampled instants can resolve to
DateKeys == {DateOf(t) - 1 : t \in Instants} \cup {DateOf(t) : t \in Instants}

\* pages_read and goal_met_at of a date in a daily_stats table; 0 and NULL
\* when the date has no aggregate
PagesRead(ds, d) ==
    IF \E r \in ds : r.date = d THEN (CHOOSE r \in ds : r.date = d).pages_read ELSE 0

GoalMetAtOf(ds, d) ==
    IF \E r \in ds : r.date = d THEN (CHOOSE r \in ds : r.date = d).goal_met_at ELSE NULL

CurrentGoal == IntSettingOr("daily_page_goal", settings_daily_page_goal)

\* a step that appends one snapshot and leaves the stored ones alone: only
\* record_progress takes such a step
AppendStep ==
    /\ Len(reading_progress') = Len(reading_progress) + 1
    /\ SubSeq(reading_progress', 1, Len(reading_progress)) = reading_progress

NewRow == reading_progress'[Len(reading_progress')]

\* a step of reset_daily_stats or reset_all_progress
ResetStep ==
    /\ ret'.op \in {"reset_daily_stats", "reset_all_progress"}
    /\ daily_stats' = {}

\* the position of the snapshot appended last for a book
LastAppendedRow(asin) ==
    CHOOSE i \in ProgressRows(asin) : \A j \in ProgressRows(asin) : j <= i

SnapshotCount(asin) == Cardinality(ProgressRows(asin))

C2_DeltaAgainstPrevious ==
    [][(AppendStep /\ ProgressRows(NewRow.asin) # {}) =>
          LET prev  == reading_progress[LastAppendedRow(NewRow.asin)].position
              delta == IF NewRow.position > prev THEN NewRow.position - prev ELSE 0
          IN  \A d \in DateKeys :
                 PagesRead(daily_stats', d) =
                    PagesRead(daily_stats, d) + (IF d = get_today_key THEN delta ELSE 0)
       ]_vars

\* C3: for every date pages_read never decreases and its aggregate never
\* disappears, except in a step of reset_daily_stats or reset_all_progress.
C3_PagesReadMonotone ==
    [][\/ ResetStep
       \/ \A r \in daily_stats :
             /\ \E q \in daily_stats' : q.date = r.date
             /\ PagesRead(daily_stats', r.date) >= r.pages_read
      ]_vars

\* C3 witness: a lower position has been recorded for a book after a higher
\* one, with an aggregate in place.
C3_Witness ==
    /\ ret.op = "record_progress"
    /\ daily_stats # {}
    /\ Len(reading_progress) >= 2
    /\ LET n == Len(reading_progress)
       IN  /\ reading_progress[n - 1].asin = reading_progress[n].asin
           /\ reading_progress[n - 1].recorded_at < reading_progress[n].recorded_at
           /\ reading_progress[n - 1].position > reading_progress[n].position

\* C4 (as claimed): a record_progress call that brings pages_read of the
\* current day from below the goal to at least the goal, goal_met_at being
\* unset, sets goal_met_at in that same call.
C4_GoalMetSetOnCrossing ==
    [][(/\ AppendStep
        /\ PagesRead(daily_stats, get_today_key) < CurrentGoal
        /\ PagesRead(daily_stats', get_today_key) >= CurrentGoal
        /\ GoalMetAtOf(daily_stats, get_today_key) = NULL)
       => GoalMetAtOf(daily_stats', get_today_key) # NULL]_vars

\* C5: once goal_met_at is set for a date it keeps its value in every step
\* that is not a reset_daily_stats or reset_all_progress.
C5_GoalMetAtStable ==
    [][\/ ResetStep
       \/ \A r \in daily_stats :
             r.goal_met_at # NULL => GoalMetAtOf(daily_stats', r.date) = r.goal_met_at
      ]_vars

\* C5 witness: the goal of the current day was met at an earlier instant and a
\* further increase has since been credited to that day.
C5_Witness ==
    /\ ret.op = "record_progress"
    /\ reading_progress # <<>>
    /\ reading_progress[Len(reading_progress)].recorded_at = now
    /\ \E r \in daily_stats :
          /\ r.date = get_today_key
          /\ r.goal_met_at # NULL
          /\ r.goal_met_at[1] < now
          /\ r.pages_read > CurrentGoal
    /\ LET n == Len(reading_progress)
       IN  \A i \in ProgressRows(reading_progress[n].asin) \ {n} :
              /\ reading_progress[i].position < reading_progress[n].position
              /\ reading_progress[i].recorded_at < now
    /\ SnapshotCount(reading_progress[Len(reading_progress)].asin) >= 2

\* C6: the day key is the previous calendar date exactly when the current
\* hour is below the reset hour and the current date otherwise, for every
\* hour and every reset hour 0..23; it is the calendar date of the instant
\* reset-hour hours before now.
C6_DayKeyRule ==
    LET reset_hour == IntSettingOr("day_reset_hour", settings_day_reset_hour)
    IN  /\ reset_hour \in ResetHours
        /\ (get_today_key = DateOf(now) - 1) <=> (HourOf(now) < reset_hour)
        /\ (get_today_key = DateOf(now)) <=> (HourOf(now) >= reset_hour)
        /\ get_today_key = DateOf(now - reset_hour)
        /\ (ret.op = "get_today_key" => ret.value \in {DateOf(t) - 1 : t \in KeyInstants}
                                                     \cup {DateOf(t) : t \in KeyInstants})

\* C6 witness: with the reset hour at 4, get_today_key called at 03h returned
\* the previous date.
C6_Witness ==
    /\ ret.op = "get_today_key"
    /\ IntSettingOr("day_reset_hour", settings_day_reset_hour) = 4
    /\ HourOf(now) = 3
    /\ ret.value = DateOf(now) - 1
    /\ ret.value = get_today_key

UniqueAsins(rows) ==
    \A i, j \in DOMAIN rows : rows[i].asin = rows[j].asin => i = j

BookOf(rows, asin) == rows[CHOOSE i \in DOMAIN rows : rows[i].asin = asin]

\* C7: the books table holds one record per book id; an upsert_book call sets
\* title and authors to the values given and, for total_pages and cover_url,
\* stores the value given or, when it is absent, keeps the value stored
\* before; it changes no other book.
C7_UpsertMerges ==
    [][/\ UniqueAsins(books')
       /\ (ret' # ret /\ ret'.op = "upsert_book") =>
             LET call == ret'
                 had  == \E i \in DOMAIN books : books[i].asin = call.asin
                 new  == BookOf(books', call.asin)
             IN  /\ \E i \in DOMAIN books' : books'[i].asin = call.asin
                 /\ Len(books') = IF had THEN Len(books) ELSE Len(books) + 1
                 /\ \A i \in DOMAIN books :
                       books[i].asin # call.asin => books'[i] = books[i]
                 /\ new.title = call.title
                 /\ json_loads(new.authors) = call.authors
                 /\ new.total_pages =
                       IF call.total_pages = NULL /\ had
                       THEN BookOf(books, call.asin).total_pages ELSE call.total_pages
                 /\ new.cover_url =
                       IF call.cover_url = NULL /\ had
                       THEN BookOf(books, call.asin).cover_url ELSE call.cover_url
      ]_vars

\* C7 witness: a book stored with total_pages 300 has been upserted again
\* without total_pages and with another title, and still holds 300.
C7_Witness ==
    /\ ret.op = "upsert_book"
    /\ ret.total_pages = NULL
    /\ \E i \in DOMAIN books :
          /\ books[i].asin = ret.asin
          /\ books[i].total_pages = <<300>>
          /\ books[i].title = ret.title

\* C8: every step either leaves the snapshots as they are, or appends exactly
\* one snapshot to them, or is reset_all_progress; a record_progress call
\* always appends, the snapshot it appends carrying the book, position and
\* percent of the call.
C8_SnapshotsAppendOnly ==
    [][/\ \/ reading_progress' = reading_progress
          \/ AppendStep
          \/ ret'.op = "reset_all_progress" /\ reading_progress' = <<>>
       /\ (ret' # ret /\ ret'.op = "record_progress") => AppendStep
       /\ AppendStep =>
             /\ ret'.op = "record_progress"
             /\ <<NewRow.asin, NewRow.position>> \in LibraryProgressInputs
             /\ NewRow.percent_complete = PercentAt(NewRow.position)
             /\ NewRow.recorded_at = now
      ]_vars

\* C8 witness: a snapshot has been appended for a book that already had one,
\* after a book record was written.
C8_Witness ==
    /\ ret.op = "record_progress"
    /\ books # <<>>
    /\ reading_progress # <<>>
    /\ SnapshotCount(reading_progress[Len(reading_progress)].asin) >= 2

Max0(x) == IF x > 0 THEN x ELSE 0

\* C9: a get_today_stats call returns, for the day key resolved at the call,
\* pages_remaining = max(0, page_goal - pages_read) and
\* goal_met = (pages_read >= page_goal); with no aggregate for that day it
\* returns pages_read 0, goal_met false, goal_met_at null and
\* pages_remaining = page_goal; with one it returns that aggregate's
\* pages_read and goal_met_at; it leaves daily_stats as it was.
C9_TodayStats ==
    [][(ret' # ret /\ ret'.op = "get_today_stats") =>
          LET v == ret'.value
          IN  /\ daily_stats' = daily_stats
              /\ v.date = get_today_key
              /\ v.page_goal = CurrentGoal
              /\ v.pages_remaining = Max0(v.page_goal - v.pages_read)
              /\ v.goal_met = (v.pages_read >= v.page_goal)
              /\ v.pages_read = PagesRead(daily_stats, get_today_key)
              /\ v.goal_met_at = GoalMetAtOf(daily_stats, get_today_key)
              /\ (DailyRows(get_today_key) = {}) =>
                    /\ v.pages_read = 0
                    /\ v.goal_met = FALSE
                    /\ v.goal_met_at = NULL
                    /\ v.pages_remaining = v.page_goal
      ]_vars

\* C9 witness: get_today_stats returned for a day on which more pages than the
\* goal were read.
C9_Witness ==
    /\ ret.op = "get_today_stats"
    /\ ret.value.pages_read > ret.value.page_goal
    /\ ret.value.pages_remaining = 0
    /\ ret.value.pages_read = PagesRead(daily_stats, get_today_key)

\* C10 (as claimed): get_library returns exactly one entry per stored book;
\* a book with snapshots shows the position and percent of the snapshot
\* recorded last for it, a book without shows null progress fields; entries
\* come most recent snapshot first, snapshot-less books after all others.
C10_LibraryShowsLatest ==
    [][(ret' # ret /\ ret'.op = "get_library") =>
          LET lib == ret'.value
          IN  /\ Len(lib) = Len(books)
              /\ UniqueAsins(lib)
              /\ \A i \in DOMAIN books : \E k \in DOMAIN lib : lib[k].asin = books[i].asin
              /\ \A k \in DOMAIN lib :
                    IF ProgressRows(lib[k].asin) = {}
                    THEN /\ lib[k].current_position = NULL
                         /\ lib[k].percent_complete = NULL
                         /\ lib[k].last_read = NULL
                    ELSE LET p == reading_progress[LastAppendedRow(lib[k].asin)]
                         IN  /\ lib[k].current_position = Some(p.position)
                             /\ lib[k].percent_complete = Some(p.percent_complete)
                             /\ lib[k].last_read = Some(p.recorded_at)
              /\ \A k \in DOMAIN lib : \A m \in DOMAIN lib :
                    k < m => ~SortsBefore(lib[m], lib[k])
      ]_vars

\* the snapshots of the ledger are the first two of one book, taken under one
\* day key, and no aggregate exists before the second
SecondOfFreshBook ==
    /\ AppendStep
    /\ Len(reading_progress) = 1
    /\ reading_progress[1].asin = NewRow.asin
    /\ daily_stats = {}
    /\ TodayKeyAt(reading_progress[1].recorded_at,
                  IntSettingOr("day_reset_hour", settings_day_reset_hour)) = get_today_key

----------------------------------------------------------------------------
(* Properties of the scraper *)

\* the positions of the terminal events among the events yielded
TerminalAt == {k \in DOMAIN events : events[k].event \in {"completed", "error"}}

\* the pass has ended and reported success
Succeeded ==
    /\ pc = "done"
    /\ IF mode = "batch"
       THEN result # NULL /\ result[1].success
       ELSE events # <<>> /\ events[Len(events)].event = "completed"

\* C12: the events of a streaming pass that has met no fatal error are, over
\* the n items of the listing: started with total_books = n first; then for
\* i = 1..n book_progress i and right after it book_complete i, both for the
\* i-th item of the listing; then completed, with which the pass ends; and
\* nothing else.
C12_StreamingSequence ==
    (mode = "streaming" /\ \A k \in DOMAIN events : events[k].event # "error") =>
        LET n == Len(listing)
        IN  /\ Len(events) <= 2 * n + 2
            /\ \A k \in DOMAIN events :
                  IF k = 1
                  THEN events[k].event = "started" /\ events[k].total_books = n
                  ELSE IF k = 2 * n + 2
                  THEN events[k].event = "completed"
                  ELSE /\ events[k].event =
                             IF k % 2 = 0 THEN "book_progress" ELSE "book_complete"
                       /\ events[k].current = k \div 2
                       /\ events[k].total = n
                       /\ events[k].book_asin = listing[k \div 2].asin
            /\ (pc = "done") = (Len(events) = 2 * n + 2)

\* C12 witness: a streaming pass over three items has ended with its eighth
\* event, completed, one item having been license-limited.
C12_Witness ==
    /\ mode = "streaming"
    /\ pc = "done"
    /\ Len(listing) = 3
    /\ Len(events) = 8
    /\ events[8].event = "completed"
    /\ events[5].event = "book_complete" /\ ~events[5].success
    /\ events[3].event = "book_complete" /\ events[3].percent_complete # NULL

\* C13: a streaming pass yields at most one terminal event (completed or
\* error), yields nothing after it, and has yielded exactly one when it
\* ends; so completed and error never both occur, and no completed follows
\* a failure, whatever was yielded before it.
C13_OneTerminalEvent ==
    mode = "streaming" =>
        /\ Cardinality(TerminalAt) <= 1
        /\ \A k \in TerminalAt : k = Len(events)
        /\ pc = "done" => Cardinality(TerminalAt) = 1
        /\ TerminalAt # {} => pc = "done"

\* C13 witness: a streaming pass has ended with error right after the
\* book_progress of its second item.
C13_Witness ==
    /\ mode = "streaming"
    /\ pc = "done"
    /\ Len(events) = 5
    /\ events[4].event = "book_progress" /\ events[4].current = 2
    /\ events[5].event = "error"

\* C14 (as claimed): an item the reader classifies license-limited adds its
\* title to the license list, in listing order, and no other item does; each
\* item whose progress is recorded adds one to books_with_progress and nothing
\* else does; the summary of a batch pass that completes reports success,
\* books_scraped = n, that count, and that list, or no list when it is empty.
C14_Summary ==
    [][/\ (pc = "open" /\ pc' # "open") =>
             books_with_license_limit' =
                IF IsLicenseLimit(progress'[1])
                THEN Append(books_with_license_limit, listing[idx].title)
                ELSE books_with_license_limit
       /\ books_with_progress' =
             IF pc = "record" /\ pc' \in {"item", "finish"} THEN books_with_progress + 1
             ELSE IF pc' = "is_logged_in" THEN 0
             ELSE books_with_progress
       /\ (pc = "finish" /\ pc' = "done" /\ mode = "batch") =>
             LET r == result'[1]
             IN  /\ r.success
                 /\ r.books_scraped = Len(listing)
                 /\ r.books_with_progress = books_with_progress
                 /\ IF books_with_license_limit = <<>>
                    THEN "license_limit_books" \notin DOMAIN r
                    ELSE r.license_limit_books = books_with_license_limit
      ]_all_vars

\* C15: what the reader meets at an item (the element missing, an exception,
\* the license dialog, no match) never ends the pass: the loop goes on with
\* the next item, no error is reported; and a pass that reports success has
\* gone through all n items, each one's metadata upserted.
C15_ItemFailuresTolerated ==
    /\ [][(pc = "open" /\ pc' # "open") =>
             /\ pc' \in {"item", "finish", "update_total", "record"}
             /\ result' = result
             /\ \A k \in DOMAIN events' : events'[k].event # "error"
             /\ (IsLicenseLimit(progress'[1]) \/ ~HasProgress(progress'[1])) =>
                   /\ idx' = idx + 1
                   /\ pc' = IF idx < Len(listing) THEN "item" ELSE "finish"
          ]_all_vars
    /\ [](Succeeded =>
             /\ idx = Len(listing) + 1
             /\ \A i \in DOMAIN listing :
                   \E c \in DOMAIN calls :
                      calls[c] = <<"upsert_book", listing[i].asin, listing[i].totalPages>>)

\* C15 witness: a batch pass over three items has reported success although
\* no item yielded progress: one was license-limited, the others missed.
C15_Witness ==
    /\ Succeeded
    /\ mode = "batch"
    /\ Len(listing) = 3
    /\ result[1].books_scraped = 3
    /\ result[1].books_with_progress = 0
    /\ Len(books_with_license_limit) = 1
    /\ Len(books) = 3

\* the Navigator has reported Manual2FARequired, or NotLoggedIn while the
\* credentials are not both configured
NavigatorRefuses ==
    \/ login_status = "2fa"
    \/ login_status = "False" /\ ~(credentials.email /\ credentials.password)

\* C16: after such a report the pass ends at once with a failure (the batch
\* result success = false with an error, the streaming pass its only event,
\* error); from its start to its end it has not called login(), not fetched
\* the listing and not written to the ledger.
C16_RefusalEndsPass ==
    /\ [][/\ (pc = "checked" /\ NavigatorRefuses) =>
                /\ pc' = "done"
                /\ IF mode = "batch"
                   THEN /\ result' # NULL
                        /\ ~result'[1].success
                        /\ "error" \in DOMAIN result'[1]
                   ELSE /\ Len(events') = 1
                        /\ events'[1].event = "error"
          /\ (pc \in {"is_logged_in", "checked"} /\ pc' \in {"is_logged_in", "checked", "done"}) =>
                UNCHANGED <<books, reading_progress, daily_stats, settings, calls, listing>>
         ]_all_vars
    /\ []((pc \in {"is_logged_in", "checked"} \/ (pc = "done" /\ NavigatorRefuses)) =>
             calls = <<>> /\ listing = <<>>)

\* C16 witness: with only the email configured, a streaming pass was refused
\* for NotLoggedIn on a ledger an earlier pass had written to.
C16_Witness ==
    /\ pc = "done"
    /\ login_status = "False"
    /\ credentials = [email |-> TRUE, password |-> FALSE]
    /\ mode = "streaming"
    /\ Len(events) = 1 /\ events[1].event = "error"
    /\ calls = <<>>
    /\ reading_progress # <<>>

\* C17 (as claimed): a pass calls login() at most once, and it fetches the
\* listing and goes on to report success only on an authenticated session:
\* the page the listing is read from is the Library.
C17_ListingOnlyWhenAuthenticated ==
    [][/\ Cardinality({c \in DOMAIN calls' : calls'[c] = <<"login">>}) <= 1
       /\ (pc = "get_library" /\ pc' \in {"item", "finish"}) => IsLibrary(page_url')
      ]_all_vars

\* C18: an attempt of is_logged_in that finds the page neither Library nor
\* Landing and its URL of a subtype ap/mfa, ap/cvf, ap/dcq, challenge or
\* verification returns "2fa" in that attempt, having performed no page
\* operation and left the page where it was.
C18_ManualPageNeverHandled ==
    [][(/\ pc = "is_logged_in"
        /\ attempt < 5
        /\ ~IsLibrary(page_url) /\ ~IsLanding(page_url)
        /\ page_url \cap {"ap/mfa", "ap/cvf", "ap/dcq", "challenge", "verification"} # {})
       => /\ pc' = "checked"
          /\ login_status' = "2fa"
          /\ page_ops' = <<>>
          /\ page_url' = page_url
          /\ attempt' = attempt
      ]_all_vars

\* C18 witness: is_logged_in has returned "2fa" from a device-challenge page
\* it reached in a later attempt.
C18_Witness ==
    /\ pc = "checked"
    /\ login_status = "2fa"
    /\ "ap/dcq" \in page_url
    /\ attempt >= 1
    /\ page_ops = <<>>

\* C19: the loop variable of is_logged_in stays within 0..5 and each attempt
\* that does not return counts one; an attempt that finds the Library URL
\* returns LoggedIn before anything else is looked at; after five attempts
\* without return the call returns NotLoggedIn; and every call returns.
C19_BoundedAttempts ==
    /\ [](attempt \in 0..5)
    /\ [][/\ (pc = "is_logged_in" /\ pc' = "is_logged_in") =>
                attempt < 5 /\ attempt' = attempt + 1
          /\ (pc = "is_logged_in" /\ attempt < 5 /\ IsLibrary(page_url)) =>
                /\ pc' = "checked"
                /\ login_status' = "True"
                /\ page_ops' = <<>>
                /\ page_url' = page_url
          /\ (pc = "is_logged_in" /\ attempt = 5) =>
                pc' = "checked" /\ login_status' = "False"
         ]_all_vars
    /\ (pc = "is_logged_in" ~> pc = "checked")

\* C19 witness: is_logged_in has returned NotLoggedIn after its fifth attempt
\* ended on a page that is not the Library.
C19_Witness ==
    /\ pc = "checked"
    /\ login_status = "False"
    /\ attempt = 5
    /\ ~IsLibrary(page_url)
    /\ page_ops # <<>>

\* C20: at every instant at most one KindleScraper object has its browser
\* context open, and a context is only ever opened while none is open,
\* however the scheduled task, manual refreshes and the shutdown interleave.
C20_OneSession ==
    /\ [](Cardinality(OpenSessions) <= 1)
    /\ [][\A i \in DOMAIN browser' :
             (browser'[i].context /\ ~(i \in DOMAIN browser /\ browser[i].context)) =>
                OpenSessions = {}
         ]_all_vars

\* C20 witness: the shutdown has closed the first session and forgotten the
\* singleton, and a refresh that was waiting has opened a second one.
C20_Witness ==
    /\ Len(browser) = 2
    /\ ~browser[1].context
    /\ browser[2].context
    /\ task["lifespan"].pc = "shutdown"
    /\ task["trigger_refresh"].pc \in PassPoints

\* C21: on one page, no page operation of another pass is executed between
\* two page operations of a running pass.
C21_ExclusivePage ==
    \A a, b, c \in DOMAIN page_log :
       (a < b /\ b < c /\ page_log[a] = page_log[c] /\ page_log[b][1] = page_log[a][1]) =>
          page_log[b] = page_log[a]

\* C22: run_scrape never raises to its caller, whichever task calls it.
C22_RunScrapeNeverRaises == \A t \in Runners : ~task[t].raised

\* task t is inside run_scrape
Running(t) == task[t].pc \in {"get_scraper", "init_browser"} \cup PassPoints

\* the last run_scrape of task t returned success = false or raised
Failed(t) == task[t].raised \/ (task[t].out # NULL /\ ~task[t].out[1].success)

\* C23: the scheduled task is only ever ended by the cancellation of the
\* shutdown; a run that returns success = false or raises leaves it in its
\* interval sleep, from which it starts another pass unless it is cancelled;
\* and last_scrape_time only changes to the timestamp of a pass that has
\* just returned success = true.
C23_FailedPassKeepsScheduler ==
    /\ [](task["scheduled_scrape"].pc # "crashed")
    /\ [](task["scheduled_scrape"].pc = "cancelled" => task["lifespan"].pc # "idle")
    /\ [][(Running("scheduled_scrape") /\ ~task["scheduled_scrape"].cancel
              /\ ~Running("scheduled_scrape")' /\ Failed("scheduled_scrape")') =>
             task'["scheduled_scrape"].pc = "sleep"
         ]_all_vars
    /\ (task["scheduled_scrape"].pc = "sleep" /\ Failed("scheduled_scrape"))
          ~> (task["scheduled_scrape"].pc = "get_scraper" \/ task["lifespan"].pc # "idle")
    /\ [][last_scrape_time' # last_scrape_time =>
             \E t \in Runners :
                /\ Running(t) /\ ~Running(t)'
                /\ task'[t].out # NULL
                /\ task'[t].out[1].success
                /\ last_scrape_time' = Some(task'[t].out[1].timestamp)
         ]_all_vars

\* C23 witness: the scheduled task is starting a pass after one that raised,
\* and after one that returned success = false, with the time of an earlier
\* success still stored.
C23_Witness ==
    /\ task["scheduled_scrape"].pc = "get_scraper"
    /\ task["scheduled_scrape"].out # NULL
    /\ ~task["scheduled_scrape"].out[1].success
    /\ last_scrape_time # NULL
    /\ task["trigger_refresh"].raised

\* C24: a CancelledError delivered to the scheduled task, at whichever await
\* it is suspended, ends the task.
C24_CancellationTerminates ==
    [][(task["scheduled_scrape"].cancel /\ ~task'["scheduled_scrape"].cancel) =>
          task'["scheduled_scrape"].pc = "cancelled"
      ]_all_vars

\* C25: the result of every finished pass carries a timestamp: the dict the
\* batch pass returns and the last event the streaming pass yields.
C25_ResultsCarryTimestamp ==
    pc = "done" =>
       /\ mode = "batch" => (result # NULL /\ "timestamp" \in DOMAIN result[1])
       /\ mode = "streaming" =>
             (events # <<>> /\ "timestamp" \in DOMAIN events[Len(events)])

\* the positions of the snapshots of a book, in the order they were stored
PositionsOf(asin) ==
    LET rows == SelectSeq(reading_progress, LAMBDA r : r.asin = asin)
    IN  [i \in DOMAIN rows |-> rows[i].position]

RECURSIVE Advances(_)
\* the pages a sequence of positions advances by, backward moves counting 0
Advances(positions) ==
    IF Len(positions) < 2 THEN 0
    ELSE Max0(positions[2] - positions[1]) + Advances(Tail(positions))

RECURSIVE SumPagesRead(_)
SumPagesRead(rows) ==
    IF rows = {} THEN 0
    ELSE LET r == CHOOSE x \in rows : TRUE IN r.pages_read + SumPagesRead(rows \ {r})

RECURSIVE SumAdvances(_)
SumAdvances(asins) ==
    IF asins = {} THEN 0
    ELSE LET a == CHOOSE x \in asins : TRUE
         IN  Advances(PositionsOf(a)) + SumAdvances(asins \ {a})

\* the pages the daily aggregate holds, over all days
PagesCredited == SumPagesRead(daily_stats)

\* the pages the stored snapshots advance by, over all books
PagesAdvanced == SumAdvances({reading_progress[i].asin : i \in DOMAIN reading_progress})

\* the pass has ended on an exception while it was at an item
AbortedAtItem ==
    /\ pc = "done"
    /\ idx \in DOMAIN listing
    /\ IF mode = "batch" THEN ~result[1].success ELSE events[Len(events)].event = "error"

\* C26: a pass that aborts at item k leaves the three tables as the items
\* before k wrote them, its ledger calls are all for items up to k, and at
\* every instant the daily aggregate holds exactly the pages the stored
\* snapshots advance by.
C26_ItemWritesIndependent ==
    /\ [][(pc \in {"item", "update_total", "record"} /\ pc' = "done") =>
             (books' = books /\ reading_progress' = reading_progress
                /\ daily_stats' = daily_stats)
         ]_all_vars
    /\ [](AbortedAtItem =>
             \A c \in DOMAIN calls :
                calls[c][1] \in {"upsert_book", "record_progress"} =>
                   \E j \in 1..idx : listing[j].asin = calls[c][2])
    /\ [](PagesCredited = PagesAdvanced)

\* C26 witness: the second pass stored A's advance from 10 to 25 and then
\* aborted at the second item, in record_progress.
C26_Witness ==
    /\ AbortedAtItem
    /\ idx = 2
    /\ progress # NULL /\ HasProgress(progress[1])
    /\ PositionsOf("A") = <<10, 25>>
    /\ PagesCredited = 15

\* the text the reader script takes its result from: the first scanned
\* element that holds any of the patterns, else the body
UsedText(view) ==
    LET holds(t) == \/ MatchesAt(t, PageWords) # {}
                    \/ MatchesAt(t, LocWords) # {}
                    \/ IsGeneric(t)
                    \/ PercentMatches(t) # {}
        hits == {i \in DOMAIN view.fragments :
                    IsScanned(view.fragments[i]) /\ holds(view.fragments[i].text)}
    IN  IF hits # {} THEN view.fragments[Leftmost(hits)].text ELSE view.body

\* "Page 12 of 340" and "45%" in one text, the percentage first
PageAndPercent == <<Percent(45)>> \o PageOf(12, 340)

\* C27: the result of the reader script is decided by the first of the rules
\* Page X of Y, Loc/Location X of Y, X of Y alone, Z% that matches the text
\* it is taken from; a text holding both "Page 12 of 340" and "45%" gives
\* current 12 and total 340.
C27_PatternPriority ==
    pc = "evaluated" =>
       LET t == UsedText(reader_page[1])
           p == progress[1]
           pages == MatchesAt(t, PageWords)
           locs  == MatchesAt(t, LocWords)
           pcts  == PercentMatches(t)
       IN  /\ pages # {} =>
                /\ p.current = Some(t[Leftmost(pages) + 1].number)
                /\ p.total = Some(t[Leftmost(pages) + 3].number)
           /\ (pages = {} /\ locs # {}) =>
                /\ p.current = Some(t[Leftmost(locs) + 1].number)
                /\ p.total = Some(t[Leftmost(locs) + 3].number)
           /\ (pages = {} /\ locs = {} /\ IsGeneric(t)) =>
                /\ p.current = Some(t[1].number)
                /\ p.total = Some(t[3].number)
           /\ (pages = {} /\ locs = {} /\ ~IsGeneric(t) /\ pcts # {}) =>
                /\ p.percent = Some(t[Leftmost(pcts)].number)
                /\ p.current = p.percent
                /\ p.total = Some(100)
           /\ (pages = {} /\ locs = {} /\ ~IsGeneric(t) /\ pcts = {}) =>
                p.current = NULL
           /\ t \in {PageAndPercent, PageOf(12, 340) \o <<Percent(45)>>} =>
                (p.current = Some(12) /\ p.total = Some(340))

\* C27 witness: the script has run on an element that reads "45% Page 12 of
\* 340", after an element of 50 characters or more that was skipped.
C27_Witness ==
    /\ pc = "evaluated"
    /\ Len(reader_page[1].fragments) = 2
    /\ ~IsScanned(reader_page[1].fragments[1])
    /\ reader_page[1].fragments[2] = Fragment(PageAndPercent, 20)
    /\ reader_page[1].body = <<Percent(45)>>
    /\ progress[1].current = Some(12)

\* C28: whenever an item has been opened and its page shows a license-limit
\* phrase, the outcome is the license_limit error, no ledger call follows for
\* the item, and the page is back on the library.
C28_LicenseLimitPriority ==
    [][(/\ pc = "open"
        /\ reader_page' # NULL
        /\ reader_page'[1].book_el = 1
        /\ reader_page'[1].raises # "open"
        /\ reader_page'[1].license_dialog) =>
          /\ IsLicenseLimit(progress'[1])
          /\ pc' \notin {"update_total", "record"}
          /\ IsLibrary(page_url')
      ]_all_vars

\* the item of the listing a ledger or reader call is for
ItemOps == {"upsert_book", "get_book_progress_from_reader", "record_progress"}
ItemCalls == {c \in DOMAIN calls : calls[c][1] \in ItemOps}
ItemOf(c) == CHOOSE j \in DOMAIN listing : listing[j].asin = calls[c][2]

\* C30: a pass fetches the listing once; its item calls come item by item in
\* listing order, for each item upsert_book first and record_progress after
\* the reader; and whenever the pass turns to an item the page is on the
\* library listing.
C30_OneItemAtATime ==
    /\ Cardinality({c \in DOMAIN calls : calls[c][1] = "get_library_and_progress"}) <= 1
    /\ \A c, d \in ItemCalls : c < d => ItemOf(c) <= ItemOf(d)
    /\ \A c \in ItemCalls :
          /\ calls[c][1] # "upsert_book" =>
                \E b \in ItemCalls : b < c /\ ItemOf(b) = ItemOf(c) /\ calls[b][1] = "upsert_book"
          /\ calls[c][1] = "record_progress" =>
                \E b \in ItemCalls :
                   b < c /\ ItemOf(b) = ItemOf(c) /\ calls[b][1] = "get_book_progress_from_reader"
          /\ calls[c][1] = "get_book_progress_from_reader" =>
                \A b \in ItemCalls : (b < c /\ ItemOf(b) = ItemOf(c)) => calls[b][1] = "upsert_book"
    /\ pc = "item" => IsLibrary(page_url)

\* C29: a request answered 200 carried no daily_page_goal outside 1..1000 and
\* no day_reset_hour outside 0..23, and a request answered 400 leaves every
\* stored setting as it was.
C29_RejectedUpdateChangesNothing ==
    /\ []((ret.op = "update_app_settings" /\ ret.status = 200) =>
             /\ ret.request.daily_page_goal # NULL => ret.request.daily_page_goal[1] \in 1..1000
             /\ ret.request.day_reset_hour # NULL => ret.request.day_reset_hour[1] \in 0..23)
    /\ []((ret.op = "update_app_settings" /\ ret.status = 400) =>
             \/ /\ ret.request.daily_page_goal # NULL
                /\ ret.request.daily_page_goal[1] \notin 1..1000
             \/ /\ ret.request.day_reset_hour # NULL
                /\ ret.request.day_reset_hour[1] \notin 0..23)
    /\ [][(ret'.op = "update_app_settings" /\ ret'.status = 400) => settings' = settings]_all_vars

\* the snapshots the running pass has appended for a book: a pass stores its
\* snapshots after its listing, at an instant later than any earlier pass
PassRows(asin) == {i \in ProgressRows(asin) : reading_progress[i].recorded_at = now}

\* the items the pass is through with
ItemsDone == {listing[j].asin : j \in 1..(idx - 1)}

\* the books the listing or a snapshot names
KnownAsins ==
    {listing[j].asin : j \in DOMAIN listing}
       \cup {reading_progress[i].asin : i \in DOMAIN reading_progress}

\* C31: the step that classifies an item license-limited or no-data ends the
\* item and writes neither a snapshot nor an aggregate; an item classified
\* progress-found gets exactly one snapshot, appended by its record_progress
\* with the position read; no other step of a pass touches the snapshots or
\* the aggregates; so the pass holds one snapshot per item counted in
\* books_with_progress and, in the streaming pass, one for every item whose
\* book_complete event carries a percentage and none for any other item.
C31_SnapshotPerProgressItem ==
    /\ [][/\ pc # "record" =>
                (reading_progress' = reading_progress /\ daily_stats' = daily_stats)
          /\ (pc = "open" /\ ~HasProgress(progress'[1])) =>
                (idx' = idx + 1 /\ pc' \in {"item", "finish"})
          /\ (pc = "open" /\ HasProgress(progress'[1])) =>
                (idx' = idx /\ pc' \in {"update_total", "record"})
          /\ (pc = "record" /\ pc' # "done") =>
                /\ AppendStep
                /\ NewRow.asin = listing[idx].asin
                /\ NewRow.position = progress[1].current[1]
                /\ idx' = idx + 1
         ]_all_vars
    /\ [](listing # <<>> =>
             /\ \A a \in KnownAsins :
                   /\ Cardinality(PassRows(a)) <= 1
                   /\ PassRows(a) # {} => a \in ItemsDone
             /\ Cardinality({i \in DOMAIN reading_progress :
                                reading_progress[i].recorded_at = now}) = books_with_progress
             /\ \A e \in DOMAIN events :
                   events[e].event = "book_complete" =>
                      Cardinality(PassRows(events[e].book_asin)) =
                         IF events[e].success /\ events[e].percent_complete # NULL
                         THEN 1 ELSE 0)

\* C31 witness: a second pass over three items has ended: A had advanced and
\* got its snapshot, B was license-limited and C gave no data, with the day's
\* aggregate holding A's pages only.
C31_Witness ==
    /\ pc = "done" /\ mode = "batch"
    /\ result # NULL /\ result[1].success
    /\ Len(listing) = 3
    /\ books_with_progress = 1
    /\ Len(books_with_license_limit) = 1
    /\ PositionsOf("A") = <<10, 25>>
    /\ PassRows("A") # {} /\ PassRows("B") = {} /\ PassRows("C") = {}
    /\ PagesCredited = 15

----------------------------------------------------------------------------
(* Properties of the navigator, the singleton and the shutdown *)

\* C33 (as claimed): when is_logged_in has returned False because its
\* attempts are used up, the page is not the library: a library page reached
\* by the action of any attempt, the last one included, is reported as
\* logged in.
C33_ExhaustedOffLibrary ==
    (pc = "checked" /\ login_status = "False" /\ attempt = LOGIN_ATTEMPTS) =>
       ~IsLibrary(page_url)

\* get_scraper returns to task t in this step: the task leaves get_scraper
\* and init_browser, neither by an exception nor by its cancellation
GetScraperReturns(t) ==
    /\ task[t].pc \in {"get_scraper", "init_browser"}
    /\ task'[t].pc \notin {"get_scraper", "init_browser", "cancelled"}
    /\ ~task'[t].raised

\* C34 (as claimed): whenever get_scraper returns, the singleton it returns
\* has its page set, also after an init_browser that failed or was cancelled.
C34_ReturnedScraperInitialized ==
    [][\A t \in Runners :
          GetScraperReturns(t) => (scraper' # NULL /\ browser'[scraper'[1]].page)
      ]_all_vars

\* the shutdown sequence of lifespan has run to its end
ShutdownComplete == task["lifespan"].pc = "shutdown" /\ ~task["lifespan"].raised

\* the passes that are at an await on the page of scraper object i
PassesOn(i) == {t \in Runners : task[t].pc \in PassPoints /\ task[t].scraper = Some(i)}

\* C35 (as claimed): once the shutdown sequence has completed no browser
\* session is open, whatever the manual refresh does; and close_scraper
\* closes no session that a pass is still using.
C35_ShutdownClosesForGood ==
    /\ [](ShutdownComplete => OpenSessions = {})
    /\ [][\A i \in DOMAIN browser :
             (browser[i].context /\ ~browser'[i].context) => PassesOn(i) = {}
         ]_all_vars

----------------------------------------------------------------------------
(* Properties of the ledger over sequences of calls *)

\* the greatest of a non-empty sequence of positions
MaxPosition(positions) ==
    CHOOSE p \in {positions[i] : i \in DOMAIN positions} :
       \A i \in DOMAIN positions : positions[i] <= p

\* C36 (as claimed): while the snapshots are those of a single book, the
\* pages credited to the daily aggregates never exceed the highest position
\* recorded for the book minus the position of its first snapshot.
C36_CreditWithinHighWater ==
    \A a \in Asins :
       (reading_progress # <<>> /\ \A i \in DOMAIN reading_progress : reading_progress[i].asin = a) =>
          PagesCredited <= MaxPosition(PositionsOf(a)) - PositionsOf(a)[1]

\* C37 (as claimed): at every instant get_today_stats reports goal_met = true
\* exactly when it reports a goal_met_at for the day.
C37_GoalMetIffStamped ==
    get_today_stats.goal_met <=> (get_today_stats.goal_met_at # NULL)

----------------------------------------------------------------------------
(* Properties of the two passes *)

\* summary.get("license_limit_books") of the batch summary, and the field of
\* the completed event: the list, or <<>> for none
BatchLicenseList(summary) ==
    IF "license_limit_books" \in DOMAIN summary THEN summary.license_limit_books ELSE <<>>

EventLicenseList(event) ==
    IF event.license_limit_books = NULL THEN <<>> ELSE event.license_limit_books[1]

\* C38: on the same listing and the same outcome of every item, the streaming
\* pass makes the same ledger calls with the same arguments in the same order
\* as the batch pass, it ends on completed exactly when the batch pass
\* returns a summary, and completed then reports the same books_scraped,
\* books_with_progress and license_limit_books.
C38_StreamingMatchesBatch ==
    ret.op = "scrape_and_save" =>
       LET last == ret.streaming.events[Len(ret.streaming.events)]
       IN  /\ ret.streaming.calls = ret.batch.calls
           /\ ret.batch.result.success <=> last.event = "completed"
           /\ ret.batch.result.success =>
                 /\ last.books_scraped = ret.batch.result.books_scraped
                 /\ last.books_with_progress = ret.batch.result.books_with_progress
                 /\ EventLicenseList(last) = BatchLicenseList(ret.batch.result)

\* C38 witness: both passes have handled three items, one with a position and
\* a real total, one license-limited and one without data, and both made the
\* four ledger calls of that listing.
C38_Witness ==
    /\ ret.op = "scrape_and_save"
    /\ ret.batch.result.success
    /\ ret.batch.result.books_scraped = 3
    /\ ret.batch.result.books_with_progress = 1
    /\ Len(BatchLicenseList(ret.batch.result)) = 1
    /\ Len(ret.streaming.calls) = 5
    /\ \E c \in DOMAIN ret.streaming.calls : ret.streaming.calls[c] = <<"upsert_book", "A", Some(300)>>

\* an earlier pass recorded the book from a reader view with a total of its
\* own: where the total is the placeholder or the view gave a percentage
\* only, the position is the percentage
EarlierReaderTotal(asin) ==
    \E i \in ProgressRows(asin) :
       /\ reading_progress[i].recorded_at < now
       /\ reading_progress[i].percent_complete # reading_progress[i].position

\* C39 (as claimed): when an earlier pass stored the total of a book's reader
\* view and the running pass has handled the book without recording it (it
\* was license-limited or gave no data), the stored total_pages is still that
\* total and not the placeholder of the listing.
C39_ReaderTotalKept ==
    \A j \in DOMAIN listing :
       LET a == listing[j].asin
       IN  (j < idx /\ EarlierReaderTotal(a) /\ PassRows(a) = {}) =>
              BookOf(books, a).total_pages # Some(LISTING_TOTAL_PAGES)

\* C40 (as claimed): the snapshot record_progress takes its delta against,
\* and the one get_library joins to a book, is the snapshot appended last for
\* the book, also when several of its snapshots carry one recorded_at.
C40_CurrentIsLastAppended ==
    /\ \A a \in Asins :
          ProgressRows(a) # {} =>
             last_progress(a) = Some(reading_progress[LastAppendedRow(a)].position)
    /\ \A i \in DOMAIN books :
          ProgressRows(books[i].asin) # {} =>
             LET p == reading_progress[LastAppendedRow(books[i].asin)]
             IN  /\ JoinLatest(books[i]).current_position = Some(p.position)
                 /\ JoinLatest(books[i]).percent_complete = Some(p.percent_complete)

=============================================================================
